---- MODULE Spec2Model ----
(***************************************************************************)
(* Token bucket resource manager of the orchestrator                       *)
(* (src/src/orchestrator/resources/token_bucket_manager.cpp).              *)
(*                                                                         *)
(* The manager is modelled at the granularity of its mutexes:             *)
(* requestResources and releaseResources run on client threads and are cut *)
(* into steps at the points where the code may block on a lock while it    *)
(* already holds one; the two background threads (refillLoop, cleanupLoop) *)
(* run beside them.  A critical section that takes its locks and cannot    *)
(* block inside (setAgentQuota, registerResource, start) is one step.      *)
(* The statistics counters of a bucket (totalRequests,                     *)
(* successfulRequests, totalTokensDispensed) are write-only in the code    *)
(* and are left out.  Time is a discrete clock whose unit is one tick of   *)
(* std::chrono::system_clock.                                              *)
(***************************************************************************)
EXTENDS Integers, FiniteSets, Sequences, TLC

VARIABLES
    buckets_,           \* resourceType -> TokenBucket (a partial map)
    bucketMutex,        \* resourceType -> owner of TokenBucket::mutex
    allocations_,       \* allocationId -> Allocation (a partial map)
    allocationsMutex_,  \* owner of allocationsMutex_
    agentAllocations_,  \* <<agentId, resourceType>> -> tokens held (0 = no entry)
    agentQuotas_,       \* <<agentId, resourceType>> -> quota (a partial map)
    quotasMutex_,       \* owner of quotasMutex_
    running_,           \* std::atomic<bool> running_
    stopRequested_,     \* std::atomic<bool> stopRequested_
    now,                \* std::chrono::system_clock::now()
    idsIssued,          \* number of allocation ids generated so far
    pc,                 \* thread -> position in the code
    req,                \* client thread -> the ResourceRequest it is serving
    quotaSeen,          \* client thread -> quota read by checkAgentQuota
    alloc,              \* client thread -> the Allocation record being built / released
    result,             \* client thread -> what its last call returned
    registerResult,     \* what the last registerResource call returned
    crashed,            \* std::terminate was called
    creditCount,        \* allocationId -> times its tokens were returned to a bucket
    trueCount,          \* allocationId -> releaseResources calls that returned true
    \* AgentLifecycle::Impl (agent_lifecycle.cpp)
    agents_,            \* agentId -> AgentContext (a partial map)
    transitions_,       \* <<fromState, event>> -> Transition (a partial map)
    stateEntryHandlers_,\* the states that have a non-null entry handler
    stateExitHandlers_, \* the states that have a non-null exit handler
    callStack,          \* thread -> its triggerEvent calls in progress, innermost last
    returned,           \* what the triggerEvent call that returned last returned
    \* SpatialPartitioner and RegionAssigner (geometric/)
    dimensions_,        \* SpatialPartitioner::dimensions_
    maxDepth_,          \* SpatialPartitioner::maxDepth_
    points_,            \* SpatialPartitioner::points_
    regions_,           \* SpatialPartitioner::regions_
    built,              \* what buildKdTree returned ("none" before the call)
    assignerRegions_,   \* RegionAssigner::regions_
    adjacencyGraph_,    \* RegionAssigner::adjacencyGraph_: region id -> set of ids
    coloredRegions_,    \* RegionAssigner::coloredRegions_
    assigned,           \* what assignColors returned ("none" before the call)
    root_,              \* SpatialPartitioner::root_: the k-d tree
    found,              \* the last findRegion call: its argument and what it returned
    verified,           \* what verifyColoring returned ("none" before the call)
    \* OpenMDBinding::Impl (openmd/binding.cpp)
    library,            \* the shared library the last initialize call found at its path
    libraryHandle_,     \* Impl::libraryHandle_: "null" or "open"
    initialized_,       \* Impl::initialized_
    functionPointers,   \* versionFn_, featureSupportedFn_, initFn_, runSimulationFn_
    initializeResult,   \* what the last initialize call returned or threw
    \* AgentLifecycle(agentId): the reasoning state machine (agent_lifecycle.cpp)
    currentState_,      \* AgentLifecycle::currentState_
    stateHistory_,      \* AgentLifecycle::stateHistory_
    mutex_,             \* owner of AgentLifecycle::mutex_
    stateChangeCallback_, \* what the callback does ("none" when not set)
    fsmPc,              \* thread -> position in transitionTo
    fsmCall,            \* thread -> argument and locals of its transitionTo call
    fsmReturned,        \* thread -> how its last transitionTo call ended
    notified            \* the transitions the callback was called with

vars == <<buckets_, bucketMutex, allocations_, allocationsMutex_, agentAllocations_,
          agentQuotas_, quotasMutex_, running_, stopRequested_, now, idsIssued, pc,
          req, quotaSeen, alloc, result, registerResult, crashed, creditCount,
          trueCount,
          agents_, transitions_, stateEntryHandlers_, stateExitHandlers_, callStack,
          returned,
          dimensions_, maxDepth_, points_, regions_, built, assignerRegions_,
          adjacencyGraph_, coloredRegions_, assigned, root_, found, verified,
          library, libraryHandle_, initialized_, functionPointers, initializeResult,
          currentState_, stateHistory_, mutex_, stateChangeCallback_, fsmPc, fsmCall,
          fsmReturned, notified>>

----------------------------------------------------------------------------
(* Bounds of the model *)

MaxTime == 2
MaxAllocs == 2

----------------------------------------------------------------------------
(* Universe of inputs *)

Clients == {"t1", "t2"}
RefillThread == "refill"
CleanupThread == "cleanup"
Threads == Clients \cup {RefillThread, CleanupThread}
NoThread == "none"

Agents == {"a1"}
ResourceTypes == {"compute"}
AllocationIds == 1..MaxAllocs
NoId == 0

TokensRequestedValues == {1, 2}
TimeoutValues == {1}
QuotaValues == {1}
QuotaAgents == {"a1"}
NoQuota == -1

\* the clock readings and the ResourceConfig values of the refill arithmetic
MaxRefillTime == 4
RefillConfigs ==
    [maxTokens : 1..3, refillRate : 0..2, burstSize : 1..2, refillInterval : 1..2]

\* ResourceConfig values handed to registerResource
Configs ==
    { [maxTokens |-> 1, refillRate |-> 0, burstSize |-> 1, refillInterval |-> 1],
      [maxTokens |-> 2, refillRate |-> 2, burstSize |-> 1, refillInterval |-> 2] }

Min(a, b) == IF a <= b THEN a ELSE b


----------------------------------------------------------------------------
(* Containers: std::unordered_map as a partial function *)

EmptyMap == [k \in {} |-> 0]
MapPut(m, k, v) == [x \in (DOMAIN m) \cup {k} |-> IF x = k THEN v ELSE m[x]]
MapErase(m, k) == [x \in (DOMAIN m) \ {k} |-> m[x]]

NoRequest == [agentId |-> "", resourceType |-> "", tokensRequested |-> 0, timeout |-> 0]
NoAllocation == [allocationId |-> NoId, agentId |-> "", resourceType |-> "",
                 tokensAllocated |-> 0, allocationTime |-> 0, expirationTime |-> 0]
NoResult == [op |-> "none", success |-> FALSE, tokensAllocated |-> 0, allocationId |-> NoId,
             errorMessage |-> ""]

----------------------------------------------------------------------------
(* Pure parts of the code *)

\* createBucket: the bucket starts full, its counters at zero
NewBucket(config, t) ==
    [maxTokens |-> config.maxTokens,
     currentTokens |-> config.maxTokens,
     refillRate |-> config.refillRate,
     burstSize |-> config.burstSize,
     refillInterval |-> config.refillInterval,
     lastRefill |-> t]

\* refillBucket without the "up to maximum" cap
refillBucketUncapped(bucket, t) ==
    LET timeSinceLastRefill == t - bucket.lastRefill IN
    IF timeSinceLastRefill >= bucket.refillInterval
    THEN LET intervalsElapsed == timeSinceLastRefill \div bucket.refillInterval
             tokensToAdd == Min(intervalsElapsed * bucket.refillRate, bucket.burstSize)
         IN [bucket EXCEPT !.currentTokens = @ + tokensToAdd, !.lastRefill = t]
    ELSE bucket

\* refillBucket, with the clock reading t
refillBucket(bucket, t) ==
    LET timeSinceLastRefill == t - bucket.lastRefill IN
    IF timeSinceLastRefill >= bucket.refillInterval
    THEN LET intervalsElapsed == timeSinceLastRefill \div bucket.refillInterval
             tokensToAdd == Min(intervalsElapsed * bucket.refillRate, bucket.burstSize)
         IN [bucket EXCEPT !.currentTokens = Min(@ + tokensToAdd, bucket.maxTokens),
                           !.lastRefill = t]
    ELSE bucket

\* getAgentAllocation: 0 when the agent or the resource has no entry
getAgentAllocation(agentId, resourceType) == agentAllocations_[<<agentId, resourceType>>]

\* checkAgentQuota, last line: the comparison against the quota
QuotaAllows(currentAllocation, requestedTokens, quota) ==
    (currentAllocation + requestedTokens) <= quota

\* requestResources: the availability test
CanGrant(bucket, tokensRequested) == bucket.currentTokens >= tokensRequested

\* requestResources: take the tokens and count the grant
TakeTokens(bucket, tokensRequested) ==
    [bucket EXCEPT !.currentTokens = @ - tokensRequested]

\* releaseResources that forgets to return the tokens
ReturnTokensDropped(bucket, tokensAllocated) == bucket

\* releaseResources: return the tokens, capped at maxTokens
ReturnTokens(bucket, tokensAllocated) ==
    [bucket EXCEPT !.currentTokens = Min(@ + tokensAllocated, bucket.maxTokens)]

\* releaseResources that leaves the agent tracking entry as it was
ReleaseHoldingsKept(held, tokensAllocated) == held

\* releaseResources: the agent tracking entry is erased when it drops to <= 0
ReleaseHoldings(held, tokensAllocated) ==
    IF held - tokensAllocated <= 0 THEN 0 ELSE held - tokensAllocated

\* releaseResources that leaves the allocation in the table
EraseAllocationSkipped(allocations, allocationId) == allocations

\* releaseResources: allocations_.erase(allocIt)
EraseAllocation(allocations, allocationId) == MapErase(allocations, allocationId)

\* a result whose tokensAllocated is not reset on entry
InitialResultUnset ==
    [op |-> "request", success |-> FALSE, tokensAllocated |-> 1, allocationId |-> NoId,
     errorMessage |-> ""]

\* requestResources: the result as initialised on entry
InitialResult ==
    [op |-> "request", success |-> FALSE, tokensAllocated |-> 0, allocationId |-> NoId,
     errorMessage |-> ""]

\* generateAllocationId draws 64 random bits; two live allocations are taken never
\* to share an id, so the id is the count of ids generated so far plus one
generateAllocationId == idsIssued + 1

----------------------------------------------------------------------------
\* the token bucket manager after construction
TokenInit ==
    /\ buckets_ = EmptyMap
    /\ bucketMutex = [r \in ResourceTypes |-> NoThread]
    /\ allocations_ = EmptyMap
    /\ allocationsMutex_ = NoThread
    /\ agentAllocations_ = [k \in Agents \X ResourceTypes |-> 0]
    /\ agentQuotas_ = EmptyMap
    /\ quotasMutex_ = NoThread
    /\ running_ = FALSE
    /\ stopRequested_ = FALSE
    /\ now = 0
    /\ idsIssued = 0
    /\ pc = [t \in Threads |-> IF t \in Clients THEN "idle" ELSE "not_started"]
    /\ req = [t \in Clients |-> NoRequest]
    /\ quotaSeen = [t \in Clients |-> NoQuota]
    /\ alloc = [t \in Clients |-> NoAllocation]
    /\ result = [t \in Clients |-> NoResult]
    /\ registerResult = FALSE
    /\ crashed = FALSE
    /\ creditCount = [id \in AllocationIds |-> 0]
    /\ trueCount = [id \in AllocationIds |-> 0]

----------------------------------------------------------------------------
(* Groups of variables *)

mutexVars == <<bucketMutex, allocationsMutex_, quotasMutex_>>
tableVars == <<allocations_, agentAllocations_>>
threadVars == <<running_, stopRequested_, crashed>>
localVars == <<req, quotaSeen, alloc>>
historyVars == <<creditCount, trueCount>>
tokenVars == <<buckets_, mutexVars, tableVars, agentQuotas_, threadVars, now, idsIssued,
               pc, localVars, result, registerResult, historyVars>>
lifecycleVars == <<agents_, transitions_, stateEntryHandlers_, stateExitHandlers_,
                   callStack, returned>>
geometricVars == <<dimensions_, maxDepth_, points_, regions_, built, assignerRegions_,
                   adjacencyGraph_, coloredRegions_, assigned, root_, found, verified>>
bindingVars == <<library, libraryHandle_, initialized_, functionPointers,
                 initializeResult>>
reasoningVars == <<currentState_, stateHistory_, mutex_, stateChangeCallback_, fsmPc,
                   fsmCall, fsmReturned, notified>>

----------------------------------------------------------------------------
(* Lifecycle of the manager and the clock *)

\* start(): spawns the refill and the cleanup thread
Start ==
    /\ ~crashed
    /\ ~running_
    /\ stopRequested_' = FALSE
    /\ pc' = [pc EXCEPT ![RefillThread] = "loop", ![CleanupThread] = "loop"]
    /\ running_' = TRUE
    /\ UNCHANGED <<buckets_, mutexVars, tableVars, agentQuotas_, now, idsIssued,
                   localVars, result, crashed, registerResult,
                   historyVars, lifecycleVars, geometricVars, bindingVars, reasoningVars>>

\* stop() with the cleanup thread at its loop test: raises stopRequested_, both
\* threads leave their loops, both joins return
Stop ==
    /\ ~crashed
    /\ running_
    /\ pc[CleanupThread] = "loop"
    /\ stopRequested_' = TRUE
    /\ running_' = FALSE
    /\ pc' = [pc EXCEPT ![RefillThread] = "not_started", ![CleanupThread] = "not_started"]
    /\ UNCHANGED <<buckets_, mutexVars, tableVars, agentQuotas_, now, idsIssued,
                   localVars, result, crashed, registerResult,
                   historyVars, lifecycleVars, geometricVars, bindingVars, reasoningVars>>

\* stop() with the cleanup thread blocked: raises stopRequested_, the refill thread
\* leaves its loop and is joined, the join of the cleanup thread never returns
StopBlocked ==
    /\ ~crashed
    /\ running_
    /\ ~stopRequested_
    /\ pc[CleanupThread] = "relock"
    /\ stopRequested_' = TRUE
    /\ pc' = [pc EXCEPT ![RefillThread] = "exited"]
    /\ UNCHANGED <<buckets_, mutexVars, tableVars, agentQuotas_, running_, now,
                   idsIssued, localVars, result, crashed, registerResult,
                   historyVars, lifecycleVars, geometricVars, bindingVars, reasoningVars>>

\* the system clock advances by one tick
Tick ==
    /\ ~crashed
    /\ now < MaxTime
    /\ now' = now + 1
    /\ UNCHANGED <<buckets_, mutexVars, tableVars, agentQuotas_, threadVars, idsIssued,
                   pc, localVars, result, registerResult,
                   historyVars, lifecycleVars, geometricVars, bindingVars, reasoningVars>>

----------------------------------------------------------------------------
(* registerResource and setAgentQuota: one critical section each, called by the  *)
(* owner of the manager *)

\* registerResource -> createBucket: buckets_[config.resourceType] = bucket, return true.
\* The bucket is written under bucketsMutex_ alone, whoever holds its own mutex.
registerResource(resourceType, config) ==
    /\ ~crashed
    /\ buckets_' = MapPut(buckets_, resourceType, NewBucket(config, now))
    /\ registerResult' = TRUE
    /\ UNCHANGED <<mutexVars, tableVars, agentQuotas_, threadVars, now, idsIssued, pc,
                   localVars, result, historyVars, lifecycleVars, geometricVars, bindingVars, reasoningVars>>

\* registerResource with a resource type that has no bucket yet
RegisterNew(resourceType, config) ==
    /\ resourceType \notin DOMAIN buckets_
    /\ registerResource(resourceType, config)

\* registerResource with a resource type that already has a bucket
RegisterAgain(resourceType, config) ==
    /\ resourceType \in DOMAIN buckets_
    /\ registerResource(resourceType, config)

\* setAgentQuota
setAgentQuota(agentId, resourceType, maxTokens) ==
    /\ ~crashed
    /\ quotasMutex_ = NoThread
    /\ agentQuotas_' = MapPut(agentQuotas_, <<agentId, resourceType>>, maxTokens)
    /\ UNCHANGED <<buckets_, mutexVars, tableVars, threadVars, now, idsIssued, pc,
                   localVars, result, registerResult,
                   historyVars, lifecycleVars, geometricVars, bindingVars, reasoningVars>>

----------------------------------------------------------------------------
(* requestResources *)

RequestPcs == {"req_holdings", "req_lock", "req_store"}

\* the request leaves through one of its denial returns
Deny(t, errorMessage) ==
    /\ pc' = [pc EXCEPT ![t] = "idle"]
    /\ req' = [req EXCEPT ![t] = NoRequest]
    /\ quotaSeen' = [quotaSeen EXCEPT ![t] = NoQuota]
    /\ result' = [result EXCEPT ![t] = [InitialResult EXCEPT !.errorMessage = errorMessage]]

\* buckets_.find fails: "Resource type not found"
RequestUnknown(t, agentId, resourceType, tokensRequested, timeout) ==
    /\ ~crashed
    /\ pc[t] = "idle"
    /\ resourceType \notin DOMAIN buckets_
    /\ Deny(t, "Resource type not found")
    /\ UNCHANGED <<buckets_, mutexVars, tableVars, agentQuotas_, threadVars, now,
                   idsIssued, alloc, registerResult,
                   historyVars, lifecycleVars, geometricVars, bindingVars, reasoningVars>>

\* buckets_.find succeeds; checkAgentQuota locks quotasMutex_ and looks the quota up:
\* without a quota it returns true at once, with one it goes on holding quotasMutex_
RequestBegin(t, agentId, resourceType, tokensRequested, timeout) ==
    /\ ~crashed
    /\ pc[t] = "idle"
    /\ resourceType \in DOMAIN buckets_
    /\ idsIssued + Cardinality({u \in Clients : pc[u] \in RequestPcs}) < MaxAllocs
    /\ quotasMutex_ = NoThread
    /\ req' = [req EXCEPT ![t] = [agentId |-> agentId, resourceType |-> resourceType,
                                  tokensRequested |-> tokensRequested,
                                  timeout |-> timeout]]
    /\ result' = [result EXCEPT ![t] = InitialResult]
    /\ LET key == <<agentId, resourceType>> IN
       IF key \notin DOMAIN agentQuotas_
       THEN /\ pc' = [pc EXCEPT ![t] = "req_lock"]
            /\ UNCHANGED <<quotasMutex_, quotaSeen>>
       ELSE /\ quotasMutex_' = t
            /\ quotaSeen' = [quotaSeen EXCEPT ![t] = agentQuotas_[key]]
            /\ pc' = [pc EXCEPT ![t] = "req_holdings"]
    /\ UNCHANGED <<buckets_, bucketMutex, allocationsMutex_, tableVars, agentQuotas_,
                   threadVars, now, idsIssued, alloc, registerResult,
                   historyVars, lifecycleVars, geometricVars, bindingVars, reasoningVars>>

\* checkAgentQuota: getAgentAllocation under allocationsMutex_, then the comparison
ReqGetAllocation(t) ==
    /\ ~crashed
    /\ pc[t] = "req_holdings"
    /\ allocationsMutex_ = NoThread
    /\ quotasMutex_' = NoThread
    /\ IF QuotaAllows(getAgentAllocation(req[t].agentId, req[t].resourceType),
                      req[t].tokensRequested, quotaSeen[t])
       THEN /\ pc' = [pc EXCEPT ![t] = "req_lock"]
            /\ UNCHANGED <<req, quotaSeen, result>>
       ELSE Deny(t, "Agent quota exceeded")
    /\ UNCHANGED <<buckets_, bucketMutex, allocationsMutex_, tableVars, agentQuotas_,
                   threadVars, now, idsIssued, alloc, registerResult,
                   historyVars, lifecycleVars, geometricVars, bindingVars, reasoningVars>>

\* lock bucket.mutex, refillBucket, test the availability; on success take the
\* tokens and build the Allocation record, otherwise unlock and return the denial
ReqLockBucket(t) ==
    /\ ~crashed
    /\ pc[t] = "req_lock"
    /\ bucketMutex[req[t].resourceType] = NoThread
    /\ LET r == req[t].resourceType
           refilled == refillBucket(buckets_[r], now)
       IN IF CanGrant(refilled, req[t].tokensRequested)
          THEN /\ buckets_' = [buckets_ EXCEPT
                                 ![r] = TakeTokens(refilled, req[t].tokensRequested)]
               /\ bucketMutex' = [bucketMutex EXCEPT ![r] = t]
               /\ alloc' = [alloc EXCEPT ![t] =
                              [allocationId |-> generateAllocationId,
                               agentId |-> req[t].agentId,
                               resourceType |-> r,
                               tokensAllocated |-> req[t].tokensRequested,
                               allocationTime |-> now,
                               expirationTime |-> now + req[t].timeout]]
               /\ idsIssued' = idsIssued + 1
               /\ pc' = [pc EXCEPT ![t] = "req_store"]
               /\ UNCHANGED <<req, quotaSeen, result>>
          ELSE /\ buckets_' = [buckets_ EXCEPT ![r] = refilled]
               /\ Deny(t, "Insufficient tokens available")
               /\ UNCHANGED <<bucketMutex, alloc, idsIssued>>
    /\ UNCHANGED <<allocationsMutex_, quotasMutex_, tableVars, agentQuotas_, threadVars,
                   now, registerResult,
                   historyVars, lifecycleVars, geometricVars, bindingVars, reasoningVars>>

\* lock allocationsMutex_, store the allocation, add to the agent's holdings, return
ReqStore(t) ==
    /\ ~crashed
    /\ pc[t] = "req_store"
    /\ allocationsMutex_ = NoThread
    /\ LET a == alloc[t]
           key == <<a.agentId, a.resourceType>>
       IN /\ allocations_' = MapPut(allocations_, a.allocationId, a)
          /\ agentAllocations_' = [agentAllocations_ EXCEPT ![key] = @ + a.tokensAllocated]
          /\ bucketMutex' = [bucketMutex EXCEPT ![a.resourceType] = NoThread]
          /\ result' = [result EXCEPT ![t] =
                          [op |-> "request", success |-> TRUE,
                           tokensAllocated |-> a.tokensAllocated,
                           allocationId |-> a.allocationId, errorMessage |-> ""]]
    /\ pc' = [pc EXCEPT ![t] = "idle"]
    /\ req' = [req EXCEPT ![t] = NoRequest]
    /\ quotaSeen' = [quotaSeen EXCEPT ![t] = NoQuota]
    /\ alloc' = [alloc EXCEPT ![t] = NoAllocation]
    /\ UNCHANGED <<buckets_, allocationsMutex_, quotasMutex_, agentQuotas_, threadVars,
                   now, idsIssued, registerResult,
                   historyVars, lifecycleVars, geometricVars, bindingVars, reasoningVars>>

----------------------------------------------------------------------------
(* releaseResources *)

\* releaseResources that reports an unknown id as released
ReleaseNotFoundAsSuccess(t, allocationId) ==
    /\ ~crashed
    /\ pc[t] = "idle"
    /\ allocationsMutex_ = NoThread
    /\ allocationId \notin DOMAIN allocations_
    /\ result' = [result EXCEPT ![t] = [op |-> "release", success |-> TRUE,
                                        tokensAllocated |-> 0, allocationId |-> allocationId,
                                        errorMessage |-> ""]]
    /\ UNCHANGED <<buckets_, mutexVars, tableVars, agentQuotas_, threadVars, now,
                   idsIssued, pc, localVars, registerResult, historyVars, lifecycleVars, geometricVars, bindingVars, reasoningVars>>

\* allocations_.find fails: return false
ReleaseNotFound(t, allocationId) ==
    /\ ~crashed
    /\ pc[t] = "idle"
    /\ allocationsMutex_ = NoThread
    /\ allocationId \notin DOMAIN allocations_
    /\ result' = [result EXCEPT ![t] = [op |-> "release", success |-> FALSE,
                                        tokensAllocated |-> 0, allocationId |-> allocationId,
                                        errorMessage |-> ""]]
    /\ UNCHANGED <<buckets_, mutexVars, tableVars, agentQuotas_, threadVars, now,
                   idsIssued, pc, localVars, registerResult,
                   historyVars, lifecycleVars, geometricVars, bindingVars, reasoningVars>>

\* allocations_.find succeeds: the call goes on holding allocationsMutex_
ReleaseFound(t, allocationId) ==
    /\ ~crashed
    /\ pc[t] = "idle"
    /\ allocationsMutex_ = NoThread
    /\ allocationId \in DOMAIN allocations_
    /\ allocationsMutex_' = t
    /\ alloc' = [alloc EXCEPT ![t] = allocations_[allocationId]]
    /\ result' = [result EXCEPT ![t] = NoResult]
    /\ pc' = [pc EXCEPT ![t] = "rel_bucket"]
    /\ UNCHANGED <<buckets_, bucketMutex, quotasMutex_, tableVars, agentQuotas_,
                   threadVars, now, idsIssued, req, quotaSeen, registerResult,
                   historyVars, lifecycleVars, geometricVars, bindingVars, reasoningVars>>

\* lock bucket.mutex, return the tokens, unlock it; update the holdings, erase the
\* allocation, return true
ReleaseReturn(t) ==
    /\ ~crashed
    /\ pc[t] = "rel_bucket"
    /\ LET a == alloc[t]
           r == a.resourceType
           key == <<a.agentId, r>>
       IN /\ IF r \in DOMAIN buckets_
             THEN /\ bucketMutex[r] = NoThread
                  /\ buckets_' = [buckets_ EXCEPT ![r] = ReturnTokens(@, a.tokensAllocated)]
                  /\ creditCount' = [creditCount EXCEPT ![a.allocationId] = @ + 1]
             ELSE UNCHANGED <<buckets_, creditCount>>
          /\ agentAllocations_' =
                [agentAllocations_ EXCEPT ![key] = ReleaseHoldings(@, a.tokensAllocated)]
          /\ allocations_' = EraseAllocation(allocations_, a.allocationId)
          /\ trueCount' = [trueCount EXCEPT ![a.allocationId] = @ + 1]
    /\ result' = [result EXCEPT ![t] = [op |-> "release", success |-> TRUE,
                                        tokensAllocated |-> 0, allocationId |-> alloc[t].allocationId,
                                        errorMessage |-> ""]]
    /\ allocationsMutex_' = NoThread
    /\ alloc' = [alloc EXCEPT ![t] = NoAllocation]
    /\ pc' = [pc EXCEPT ![t] = "idle"]
    /\ UNCHANGED <<bucketMutex, quotasMutex_, agentQuotas_, threadVars, now, idsIssued,
                   req, quotaSeen, registerResult, lifecycleVars, geometricVars, bindingVars, reasoningVars>>

----------------------------------------------------------------------------
(* refillLoop *)

\* one iteration of a pass: under bucketsMutex_, lock bucket.mutex, refillBucket,
\* unlock
RefillBucket(resourceType) ==
    /\ ~crashed
    /\ pc[RefillThread] = "loop"
    /\ ~stopRequested_
    /\ resourceType \in DOMAIN buckets_
    /\ bucketMutex[resourceType] = NoThread
    /\ buckets_' = [buckets_ EXCEPT ![resourceType] = refillBucket(@, now)]
    /\ UNCHANGED <<mutexVars, tableVars, agentQuotas_, threadVars, now, idsIssued, pc,
                   localVars, result, registerResult,
                   historyVars, lifecycleVars, geometricVars, bindingVars, reasoningVars>>

----------------------------------------------------------------------------
(* cleanupLoop *)

\* the allocations a pass made at time t finds expired
Expired(t) == {id \in DOMAIN allocations_ : t > allocations_[id].expirationTime}

\* a pass that finds nothing expired: lock allocationsMutex_, scan, unlock, sleep
CleanupPassIdle ==
    /\ ~crashed
    /\ pc[CleanupThread] = "loop"
    /\ ~stopRequested_
    /\ allocationsMutex_ = NoThread
    /\ Expired(now) = {}
    /\ UNCHANGED vars

\* A pass that reaches an expired allocation calls releaseResources while it holds
\* allocationsMutex_, and releaseResources locks that std::mutex again on the same
\* thread.  That is undefined behaviour; the outcome here is the one of a plain
\* pthread mutex: the thread blocks on itself for ever, still owning the mutex.
CleanupPassHang ==
    /\ ~crashed
    /\ pc[CleanupThread] = "loop"
    /\ ~stopRequested_
    /\ allocationsMutex_ = NoThread
    /\ Expired(now) # {}
    /\ allocationsMutex_' = CleanupThread
    /\ pc' = [pc EXCEPT ![CleanupThread] = "relock"]
    /\ UNCHANGED <<buckets_, bucketMutex, quotasMutex_, tableVars, agentQuotas_,
                   threadVars, now, idsIssued, localVars, result, registerResult,
                   historyVars, lifecycleVars, geometricVars, bindingVars, reasoningVars>>

\* The other outcome of the same relock: an error-checking mutex reports EDEADLK,
\* lock() throws std::system_error out of the thread function and std::terminate
\* ends the process.
CleanupPassTerminate ==
    /\ ~crashed
    /\ pc[CleanupThread] = "loop"
    /\ ~stopRequested_
    /\ allocationsMutex_ = NoThread
    /\ Expired(now) # {}
    /\ crashed' = TRUE
    /\ UNCHANGED <<buckets_, mutexVars, tableVars, agentQuotas_, running_,
                   stopRequested_, now, idsIssued, pc, localVars, result, registerResult,
                   historyVars, lifecycleVars, geometricVars, bindingVars, reasoningVars>>

----------------------------------------------------------------------------
(* AgentLifecycle::Impl: the seven-state machine behind triggerEvent.        *)
(* triggerEvent takes no lock, so a call is cut into the steps between which *)
(* another thread can run: the lookup, each handler invocation, the state    *)
(* update and the return.  A handler is a std::function the caller supplies: *)
(* it either returns or calls triggerEvent for the agent it was handed.      *)

MaxCallDepth == 2

LcThreads == {"c1", "c2"}
\* the ids generateUuid hands out, and an id it never hands out
LcAgentIds == {"g1"}
UnknownAgentIds == {"g0"}

States == {"UNINITIALIZED", "INITIALIZING", "READY", "RUNNING", "PAUSED", "ERROR",
           "TERMINATED"}
Events == {"INITIALIZE", "INITIALIZATION_COMPLETE", "INITIALIZATION_FAILED", "START",
           "STOP", "PAUSE", "RESUME", "ERROR_OCCURRED", "RECOVERY_COMPLETE", "TERMINATE"}

\* the events the second caller passes to triggerEvent
ConcurrentEvents == {"START", "TERMINATE"}
CallerEvents(t) == IF t = "c1" THEN Events ELSE ConcurrentEvents

\* the events a handler passes to triggerEvent when it calls it
ReentrantEvents == {"TERMINATE", "PAUSE"}
\* the states the callers register exit and entry handlers for
ExitHandlerStates == {"READY"}
EntryHandlerStates == {"RUNNING"}
\* the arguments the callers pass to setStateTransitionHandler
TransitionHandlerArgs ==
    { <<"READY", "START", "RUNNING", TRUE>>, <<"TERMINATED", "START", "READY", FALSE>> }

\* the assignments of setupDefaultTransitions, as <<from, event, target>>
DefaultRows ==
    { <<"UNINITIALIZED", "INITIALIZE", "INITIALIZING">>,
      <<"INITIALIZING", "INITIALIZATION_COMPLETE", "READY">>,
      <<"INITIALIZING", "INITIALIZATION_FAILED", "ERROR">>,
      <<"READY", "START", "RUNNING">>,
      <<"RUNNING", "STOP", "READY">>,
      <<"RUNNING", "PAUSE", "PAUSED">>,
      <<"PAUSED", "RESUME", "RUNNING">>,
      <<"PAUSED", "STOP", "READY">>,
      <<"RUNNING", "ERROR_OCCURRED", "ERROR">>,
      <<"ERROR", "RECOVERY_COMPLETE", "READY">>,
      <<"UNINITIALIZED", "TERMINATE", "TERMINATED">>,
      <<"INITIALIZING", "TERMINATE", "TERMINATED">>,
      <<"READY", "TERMINATE", "TERMINATED">>,
      <<"RUNNING", "TERMINATE", "TERMINATED">>,
      <<"PAUSED", "TERMINATE", "TERMINATED">>,
      <<"ERROR", "TERMINATE", "TERMINATED">> }

\* setupDefaultTransitions without its assignment for (PAUSED, STOP)
setupDefaultTransitionsNoStop ==
    [k \in {<<row[1], row[2]>> : row \in DefaultRows} \ {<<"PAUSED", "STOP">>} |->
        [targetState |-> (CHOOSE row \in DefaultRows : <<row[1], row[2]>> = k)[3],
         handler |-> FALSE]]

\* transitions_ as setupDefaultTransitions leaves it: every handler is nullptr
setupDefaultTransitions ==
    [k \in {<<row[1], row[2]>> : row \in DefaultRows} |->
        [targetState |-> (CHOOSE row \in DefaultRows : <<row[1], row[2]>> = k)[3],
         handler |-> FALSE]]

NoReturn == [thread |-> NoThread, value |-> FALSE]

\* AgentLifecycle after construction
LifecycleInit ==
    /\ agents_ = EmptyMap
    /\ transitions_ = setupDefaultTransitions
    /\ stateEntryHandlers_ = {}
    /\ stateExitHandlers_ = {}
    /\ callStack = [t \in LcThreads |-> <<>>]
    /\ returned = NoReturn

\* the innermost call of thread t
Top(t) == callStack[t][Len(callStack[t])]
SetTop(stack, frame) == [stack EXCEPT ![Len(stack)] = frame]
Pop(stack) == SubSeq(stack, 1, Len(stack) - 1)

\* the positions of a call: inside one of its three handlers, or before its state
\* update
HandlerPcs == {"exit", "transition", "entry"}

\* lines 110-119 after the lookup: the first handler that is present is invoked
AfterLookup(frame) ==
    IF frame.currentState \in stateExitHandlers_ THEN "exit"
    ELSE IF frame.handler THEN "transition"
    ELSE "update"

\* lines 116-119 after the exit handler
AfterExit(frame) == IF frame.handler THEN "transition" ELSE "update"

\* createAgent: a fresh uuid, state UNINITIALIZED
createAgent ==
    /\ \E agentId \in LcAgentIds \ DOMAIN agents_ :
          agents_' = MapPut(agents_, agentId,
                            [currentState |-> "UNINITIALIZED",
                             previousState |-> "UNINITIALIZED"])
    /\ UNCHANGED <<transitions_, stateEntryHandlers_, stateExitHandlers_, callStack,
                   returned, tokenVars, geometricVars, bindingVars, reasoningVars>>

\* setStateTransitionHandler: transitions_[key] = Transition{toState, handler}
setStateTransitionHandler(fromState, event, toState, handler) ==
    /\ transitions_' = MapPut(transitions_, <<fromState, event>>,
                              [targetState |-> toState, handler |-> handler])
    /\ UNCHANGED <<agents_, stateEntryHandlers_, stateExitHandlers_, callStack,
                   returned, tokenVars, geometricVars, bindingVars, reasoningVars>>

setStateEntryHandler(state) ==
    /\ stateEntryHandlers_' = stateEntryHandlers_ \cup {state}
    /\ UNCHANGED <<agents_, transitions_, stateExitHandlers_, callStack, returned,
                   tokenVars, geometricVars, bindingVars, reasoningVars>>

setStateExitHandler(state) ==
    /\ stateExitHandlers_' = stateExitHandlers_ \cup {state}
    /\ UNCHANGED <<agents_, transitions_, stateEntryHandlers_, callStack, returned,
                   tokenVars, geometricVars, bindingVars, reasoningVars>>

\* thread t is at a point where it can call triggerEvent(agentId, event): it is a
\* caller outside any call, or it is executing a handler, which was handed agentId
CanCall(t, agentId, event) ==
    \/ callStack[t] = <<>> /\ event \in CallerEvents(t)
    \/ /\ callStack[t] # <<>>
       /\ Top(t).pc \in HandlerPcs
       /\ Top(t).agentId = agentId
       /\ event \in ReentrantEvents
       /\ Len(callStack[t]) < MaxCallDepth

\* the two lookups of triggerEvent: the agent, then its (state, event) pair
HasTransition(agentId, event) ==
    /\ agentId \in DOMAIN agents_
    /\ <<agents_[agentId].currentState, event>> \in DOMAIN transitions_

\* triggerEvent that records the state in previousState before it returns false
TriggerRejectedRecordingState(t, agentId, event) ==
    /\ CanCall(t, agentId, event)
    /\ ~HasTransition(agentId, event)
    /\ returned' = [thread |-> t, value |-> FALSE]
    /\ agents_' = [a \in DOMAIN agents_ |->
                     IF a = agentId
                     THEN [agents_[a] EXCEPT !.previousState = agents_[a].currentState]
                     ELSE agents_[a]]
    /\ UNCHANGED <<transitions_, stateEntryHandlers_, stateExitHandlers_,
                   callStack, tokenVars, geometricVars, bindingVars, reasoningVars>>

\* triggerEvent, lines 89-104: a lookup fails, return false
TriggerRejected(t, agentId, event) ==
    /\ CanCall(t, agentId, event)
    /\ ~HasTransition(agentId, event)
    /\ returned' = [thread |-> t, value |-> FALSE]
    /\ UNCHANGED <<agents_, transitions_, stateEntryHandlers_, stateExitHandlers_,
                   callStack, tokenVars, geometricVars, bindingVars, reasoningVars>>

\* triggerEvent, lines 89-119: both lookups succeed; the call keeps the state it read,
\* the target state and the transition handler in locals and goes on to its first
\* handler, or to the state update when it has none
TriggerAccepted(t, agentId, event) ==
    /\ CanCall(t, agentId, event)
    /\ HasTransition(agentId, event)
    /\ LET currentState == agents_[agentId].currentState
           transition == transitions_[<<currentState, event>>]
           frame == [agentId |-> agentId, event |-> event,
                     currentState |-> currentState,
                     targetState |-> transition.targetState,
                     handler |-> transition.handler, pc |-> "update"]
       IN callStack' = [callStack EXCEPT ![t] =
                           Append(@, [frame EXCEPT !.pc = AfterLookup(frame)])]
    /\ UNCHANGED <<agents_, transitions_, stateEntryHandlers_, stateExitHandlers_,
                   returned, tokenVars, geometricVars, bindingVars, reasoningVars>>

\* the exit or the transition handler returns: on to the next handler or to the update
LeaveHandler(t) ==
    /\ callStack[t] # <<>>
    /\ Top(t).pc \in {"exit", "transition"}
    /\ callStack' = [callStack EXCEPT ![t] =
          SetTop(@, [Top(t) EXCEPT !.pc = IF @ = "exit" THEN AfterExit(Top(t))
                                                     ELSE "update"])]
    /\ UNCHANGED <<agents_, transitions_, stateEntryHandlers_, stateExitHandlers_,
                   returned, tokenVars, geometricVars, bindingVars, reasoningVars>>

\* triggerEvent, lines 122-131: the state update; the entry handler of the target state
\* is invoked if present, otherwise the call returns true
UpdateState(t) ==
    /\ callStack[t] # <<>>
    /\ Top(t).pc = "update"
    /\ agents_' = [agents_ EXCEPT ![Top(t).agentId] =
                      [currentState |-> Top(t).targetState,
                       previousState |-> Top(t).currentState]]
    /\ IF Top(t).targetState \in stateEntryHandlers_
       THEN /\ callStack' = [callStack EXCEPT ![t] =
                                SetTop(@, [Top(t) EXCEPT !.pc = "entry"])]
            /\ UNCHANGED returned
       ELSE /\ callStack' = [callStack EXCEPT ![t] = Pop(@)]
            /\ returned' = [thread |-> t, value |-> TRUE]
    /\ UNCHANGED <<transitions_, stateEntryHandlers_, stateExitHandlers_, tokenVars,
                   geometricVars, bindingVars, reasoningVars>>

\* the entry handler returns, and triggerEvent returns true
LeaveEntryHandler(t) ==
    /\ callStack[t] # <<>>
    /\ Top(t).pc = "entry"
    /\ callStack' = [callStack EXCEPT ![t] = Pop(@)]
    /\ returned' = [thread |-> t, value |-> TRUE]
    /\ UNCHANGED <<agents_, transitions_, stateEntryHandlers_, stateExitHandlers_,
                   tokenVars, geometricVars, bindingVars, reasoningVars>>

LifecycleOwnerStep ==
    \/ createAgent
    \/ \E a \in TransitionHandlerArgs : setStateTransitionHandler(a[1], a[2], a[3], a[4])
    \/ \E state \in EntryHandlerStates : setStateEntryHandler(state)
    \/ \E state \in ExitHandlerStates : setStateExitHandler(state)

LifecycleThreadStep(t) ==
    \/ \E a \in LcAgentIds \cup UnknownAgentIds, e \in CallerEvents(t) \cup ReentrantEvents :
          TriggerRejected(t, a, e)
    \/ \E a \in LcAgentIds \cup UnknownAgentIds, e \in CallerEvents(t) \cup ReentrantEvents :
          TriggerAccepted(t, a, e)
    \/ LeaveHandler(t)
    \/ UpdateState(t)
    \/ LeaveEntryHandler(t)

NextLifecycle ==
    \/ LifecycleOwnerStep
    \/ \E t \in LcThreads : LifecycleThreadStep(t)

----------------------------------------------------------------------------
(* SpatialPartitioner and RegionAssigner *)

\* Coordinates are integers.  A point is the sequence of its coordinates, a region id
\* "R" + std::to_string(n) is the number n, and a color is its enumerator value.

MaxPoints == 12
MaxKdDepth == 4
Dimensions == {1, 2}
\* a leaf holds at most this many points unless the depth limit stops the split
KdMaxLeafPoints == 5
NumColors == 4
NoColor == -1
GridWidth == 4

\* the point lists handed to addPoint: n points on a line, on a grid four wide, row by
\* row on a square grid three wide, or all equal
PointPatterns == {"line", "grid", "square", "same"}
PatternPoint(pattern, dimensions, i) ==
    [d \in 1..dimensions |->
        IF pattern = "line" THEN i
        ELSE IF pattern = "grid" THEN (IF d = 1 THEN i % GridWidth ELSE i \div GridWidth)
        ELSE IF pattern = "square"
             THEN (IF d = 1 THEN (i - 1) % 3 ELSE (i - 1) \div 3)
        ELSE 1]

\* nullptr, Region{} and the state before any findRegion call
NoNode == [kind |-> "null"]
EmptyRegion == [id |-> 0, points |-> <<>>, min |-> <<>>, max |-> <<>>]
NoFound == [point |-> <<>>, region |-> EmptyRegion]
PointLists(dimensions) ==
    { [i \in 1..n |-> PatternPoint(pattern, dimensions, i)] :
         n \in 0..MaxPoints, pattern \in PointPatterns }

\* the partitioner before buildKdTree, and the assigner after construction
GeometricInit ==
    /\ dimensions_ = 1
    /\ maxDepth_ = 0
    /\ points_ = <<>>
    /\ regions_ = <<>>
    /\ built = "none"
    /\ assignerRegions_ = <<>>
    /\ adjacencyGraph_ = EmptyMap
    /\ coloredRegions_ = <<>>
    /\ assigned = "none"
    /\ root_ = NoNode
    /\ found = NoFound
    /\ verified = "none"

MinOf(S) == CHOOSE x \in S : \A y \in S : x <= y
MaxOf(S) == CHOOSE x \in S : \A y \in S : x >= y

\* std::sort on the values of one dimension
RECURSIVE SortValues(_)
SortValues(values) ==
    IF values = <<>> THEN <<>>
    ELSE LET v == Head(values)
             rest == SortValues(Tail(values))
         IN SelectSeq(rest, LAMBDA x : x <= v) \o <<v>> \o SelectSeq(rest, LAMBDA x : x > v)

\* the id a leaf is given: regions_ still holds the regions of the previous build while
\* the tree is built
LeafId == Len(regions_) + 1

\* a build that gives the right child the whole box of its parent
RECURSIVE buildKdTreeRecursiveWideRight(_, _, _, _)
buildKdTreeRecursiveWideRight(points, depth, min, max) ==
    LET leaf == [kind |-> "leaf",
                 region |-> [id |-> LeafId, points |-> points, min |-> min, max |-> max]]
    IN IF depth >= maxDepth_ \/ Len(points) <= KdMaxLeafPoints THEN leaf
       ELSE LET splitDim == (depth % dimensions_) + 1
                values == [i \in 1..Len(points) |-> points[i][splitDim]]
                median == SortValues(values)[(Len(values) \div 2) + 1]
                leftPoints == SelectSeq(points, LAMBDA q : q[splitDim] <= median)
                rightPoints == SelectSeq(points, LAMBDA q : q[splitDim] > median)
            IN IF leftPoints = <<>> \/ rightPoints = <<>> THEN leaf
               ELSE [kind |-> "internal",
                     splitDimension |-> splitDim,
                     splitValue |-> median,
                     left |-> buildKdTreeRecursiveWideRight(leftPoints, depth + 1, min,
                                                   [max EXCEPT ![splitDim] = median]),
                     right |-> buildKdTreeRecursiveWideRight(rightPoints, depth + 1,
                                                    min, max)]

\* buildKdTreeRecursive: the subtree for points
RECURSIVE buildKdTreeRecursive(_, _, _, _)
buildKdTreeRecursive(points, depth, min, max) ==
    LET leaf == [kind |-> "leaf",
                 region |-> [id |-> LeafId, points |-> points, min |-> min, max |-> max]]
    IN IF depth >= maxDepth_ \/ Len(points) <= KdMaxLeafPoints THEN leaf
       ELSE LET splitDim == (depth % dimensions_) + 1
                values == [i \in 1..Len(points) |-> points[i][splitDim]]
                median == SortValues(values)[(Len(values) \div 2) + 1]
                leftPoints == SelectSeq(points, LAMBDA q : q[splitDim] <= median)
                rightPoints == SelectSeq(points, LAMBDA q : q[splitDim] > median)
            IN IF leftPoints = <<>> \/ rightPoints = <<>> THEN leaf
               ELSE [kind |-> "internal",
                     splitDimension |-> splitDim,
                     splitValue |-> median,
                     left |-> buildKdTreeRecursive(leftPoints, depth + 1, min,
                                                   [max EXCEPT ![splitDim] = median]),
                     right |-> buildKdTreeRecursive(rightPoints, depth + 1,
                                                    [min EXCEPT ![splitDim] = median],
                                                    max)]

\* collectRegions: the leaves of the subtree, left subtree first
RECURSIVE collectRegions(_)
collectRegions(node) ==
    IF node.kind = "null" THEN <<>>
    ELSE IF node.kind = "leaf" THEN <<node.region>>
    ELSE collectRegions(node.left) \o collectRegions(node.right)

\* a lookup that sends a point on the splitting plane to the right subtree
RECURSIVE findRegionRecursiveStrict(_, _)
findRegionRecursiveStrict(node, point) ==
    IF node.kind = "null" THEN EmptyRegion
    ELSE IF node.kind = "leaf" THEN node.region
    ELSE IF point[node.splitDimension] < node.splitValue
         THEN findRegionRecursiveStrict(node.left, point)
         ELSE findRegionRecursiveStrict(node.right, point)

\* findRegionRecursive: down the tree, left when the coordinate is <= splitValue
RECURSIVE findRegionRecursive(_, _)
findRegionRecursive(node, point) ==
    IF node.kind = "null" THEN EmptyRegion
    ELSE IF node.kind = "leaf" THEN node.region
    ELSE IF point[node.splitDimension] <= node.splitValue
         THEN findRegionRecursive(node.left, point)
         ELSE findRegionRecursive(node.right, point)

\* areRegionsAdjacent: the regions touch along one dimension and overlap in all others
areRegionsAdjacent(region1, region2) ==
    \E dim \in DOMAIN region1.min :
       /\ \/ region1.min[dim] = region2.max[dim]
          \/ region1.max[dim] = region2.min[dim]
       /\ \A d \in DOMAIN region1.min \ {dim} :
             ~(region1.max[d] < region2.min[d] \/ region1.min[d] > region2.max[d])

\* std::find_if over regions_: the first region with this id
FindRegion(id) ==
    MinOf({i \in DOMAIN assignerRegions_ : assignerRegions_[i].id = id})

\* isColorValid: no adjacent id resolves to a region that already has this color
isColorValid(regionIdx, color, colors) ==
    LET regionId == assignerRegions_[regionIdx].id IN
    regionId \in DOMAIN adjacencyGraph_ =>
       \A adjId \in adjacencyGraph_[regionId] :
          (\E i \in DOMAIN assignerRegions_ : assignerRegions_[i].id = adjId) =>
             ~(colors[FindRegion(adjId)] # NoColor /\ colors[FindRegion(adjId)] = color)

\* tryColor: backtracking over the colors 0..3 in this order; tryColorFrom is its loop
\* from color c on
RECURSIVE tryColor(_, _), tryColorFrom(_, _, _)
tryColor(regionIdx, colors) ==
    IF regionIdx > Len(assignerRegions_) THEN [success |-> TRUE, colors |-> colors]
    ELSE tryColorFrom(regionIdx, 0, colors)
tryColorFrom(regionIdx, c, colors) ==
    IF c >= NumColors THEN [success |-> FALSE, colors |-> colors]
    ELSE IF isColorValid(regionIdx, c, colors)
         THEN LET rest == tryColor(regionIdx + 1, [colors EXCEPT ![regionIdx] = c])
              IN IF rest.success THEN rest ELSE tryColorFrom(regionIdx, c + 1, colors)
         ELSE tryColorFrom(regionIdx, c + 1, colors)

\* verifyColoring: every color is in 0..3 and differs from the color of the first
\* colored region found under each adjacent id
FindColored(id) ==
    MinOf({i \in DOMAIN coloredRegions_ : coloredRegions_[i].id = id})
verifyColoringResult ==
    \A i \in DOMAIN coloredRegions_ :
       /\ ~(coloredRegions_[i].color < 0 \/ coloredRegions_[i].color > 3)
       /\ \A adjRegionId \in coloredRegions_[i].adjacentRegions :
             (\E k \in DOMAIN coloredRegions_ : coloredRegions_[k].id = adjRegionId) =>
                coloredRegions_[FindColored(adjRegionId)].color # coloredRegions_[i].color

\* setMaxDepth: a depth below 1 is ignored
setMaxDepth(depth) ==
    /\ maxDepth_' = IF depth >= 1 THEN depth ELSE maxDepth_
    /\ UNCHANGED <<dimensions_, points_, regions_, built, assignerRegions_,
                   adjacencyGraph_, coloredRegions_, assigned, root_, found, verified,
                   tokenVars, lifecycleVars, bindingVars, reasoningVars>>

\* buildKdTree: false without points; otherwise the bounding box, the tree, and
\* regions_ replaced by its leaves
buildKdTree ==
    /\ IF points_ = <<>>
       THEN /\ built' = "false"
            /\ UNCHANGED <<regions_, root_>>
       ELSE LET min == [d \in 1..dimensions_ |->
                          MinOf({points_[i][d] : i \in DOMAIN points_})]
                max == [d \in 1..dimensions_ |->
                          MaxOf({points_[i][d] : i \in DOMAIN points_})]
                tree == buildKdTreeRecursive(points_, 0, min, max)
            IN /\ root_' = tree
               /\ regions_' = collectRegions(tree)
               /\ built' = "true"
    /\ UNCHANGED <<dimensions_, maxDepth_, points_, assignerRegions_, adjacencyGraph_,
                   coloredRegions_, assigned, found, verified, tokenVars, lifecycleVars, bindingVars, reasoningVars>>

\* findRegion for one of the points handed to addPoint
findRegion(point) ==
    /\ found' = [point |-> point, region |-> findRegionRecursive(root_, point)]
    /\ UNCHANGED <<dimensions_, maxDepth_, points_, regions_, built, assignerRegions_,
                   adjacencyGraph_, coloredRegions_, assigned, root_, verified,
                   tokenVars, lifecycleVars, bindingVars, reasoningVars>>

\* setRegions(partitioner.getRegions())
setRegions ==
    /\ assignerRegions_' = regions_
    /\ adjacencyGraph_' = EmptyMap
    /\ coloredRegions_' = <<>>
    /\ assigned' = "none"
    /\ verified' = "none"
    /\ UNCHANGED <<dimensions_, maxDepth_, points_, regions_, built, root_, found,
                   tokenVars, lifecycleVars, bindingVars, reasoningVars>>

\* determineAdjacency: every adjacent pair i < j is entered under both ids
determineAdjacency ==
    /\ IF assignerRegions_ = <<>>
       THEN UNCHANGED adjacencyGraph_
       ELSE LET pairs == {ij \in (DOMAIN assignerRegions_) \X (DOMAIN assignerRegions_) :
                            /\ ij[1] < ij[2]
                            /\ areRegionsAdjacent(assignerRegions_[ij[1]],
                                                  assignerRegions_[ij[2]])}
                entries == {<<assignerRegions_[ij[1]].id, assignerRegions_[ij[2]].id>> :
                               ij \in pairs}
                           \cup
                           {<<assignerRegions_[ij[2]].id, assignerRegions_[ij[1]].id>> :
                               ij \in pairs}
            IN adjacencyGraph_' =
                  [k \in DOMAIN adjacencyGraph_ \cup {e[1] : e \in entries} |->
                      (IF k \in DOMAIN adjacencyGraph_ THEN adjacencyGraph_[k] ELSE {})
                      \cup {e[2] : e \in {x \in entries : x[1] = k}}]
    /\ UNCHANGED <<dimensions_, maxDepth_, points_, regions_, built, assignerRegions_,
                   coloredRegions_, assigned, root_, found, verified, tokenVars,
                   lifecycleVars, bindingVars, reasoningVars>>

\* assignColors: false without regions or without adjacency; otherwise coloredRegions_
\* is rebuilt and, when tryColor succeeds, given the colors it found.  When tryColor
\* fails the color members are left uninitialised.
assignColors ==
    /\ IF assignerRegions_ = <<>> \/ DOMAIN adjacencyGraph_ = {}
       THEN /\ assigned' = "false"
            /\ UNCHANGED coloredRegions_
       ELSE LET fresh == [i \in DOMAIN assignerRegions_ |-> NoColor]
                outcome == tryColor(1, fresh)
                adjacent(id) == IF id \in DOMAIN adjacencyGraph_
                                THEN adjacencyGraph_[id] ELSE {}
            IN IF outcome.success
               THEN /\ coloredRegions_' =
                          [i \in DOMAIN assignerRegions_ |->
                              [id |-> assignerRegions_[i].id,
                               adjacentRegions |-> adjacent(assignerRegions_[i].id),
                               color |-> outcome.colors[i]]]
                    /\ assigned' = "true"
               ELSE /\ \E garbage \in [DOMAIN assignerRegions_ ->
                                          (0..(NumColors - 1)) \cup {NoColor}] :
                          coloredRegions_' =
                             [i \in DOMAIN assignerRegions_ |->
                                 [id |-> assignerRegions_[i].id,
                                  adjacentRegions |-> adjacent(assignerRegions_[i].id),
                                  color |-> garbage[i]]]
                    /\ assigned' = "false"
    /\ verified' = "none"
    /\ UNCHANGED <<dimensions_, maxDepth_, points_, regions_, built, assignerRegions_,
                   adjacencyGraph_, root_, found, tokenVars, lifecycleVars, bindingVars, reasoningVars>>

\* verifyColoring
verifyColoring ==
    /\ verified' = IF verifyColoringResult THEN "true" ELSE "false"
    /\ UNCHANGED <<dimensions_, maxDepth_, points_, regions_, built, assignerRegions_,
                   adjacencyGraph_, coloredRegions_, assigned, root_, found, tokenVars,
                   lifecycleVars, bindingVars, reasoningVars>>

NextGeometric ==
    \/ buildKdTree
    \/ setRegions
    \/ determineAdjacency
    \/ assignColors
    \/ verifyColoring

----------------------------------------------------------------------------
(* OpenMDBinding::Impl (openmd/binding.cpp) *)

\* the symbols loadFunctions requires, in the order it looks them up
RequiredSymbols ==
    <<"OpenMD_GetVersion", "OpenMD_IsFeatureSupported", "OpenMD_Initialize",
      "OpenMD_RunSimulation">>
RequiredVersion == [major |-> 1, minor |-> 0, patch |-> 0]

\* the shared libraries libraryPath may lead to: whether dlopen succeeds, which of the
\* required symbols dlsym finds, the version OpenMD_GetVersion reports and the value
\* OpenMD_Initialize returns
LibraryVersions ==
    { [major |-> 0, minor |-> 9, patch |-> 9],
      [major |-> 1, minor |-> 0, patch |-> 0],
      [major |-> 1, minor |-> 2, patch |-> 0],
      [major |-> 2, minor |-> 0, patch |-> 0] }
Libraries ==
    [loads : BOOLEAN,
     symbols : SUBSET {RequiredSymbols[i] : i \in DOMAIN RequiredSymbols},
     version : LibraryVersions,
     initReturn : {0, 1}]
NoLibrary ==
    [loads |-> FALSE, symbols |-> {}, version |-> RequiredVersion, initReturn |-> 0]

\* Impl(): the handle is null and initialized_ false; the function pointers are not
\* initialised
BindingInit ==
    /\ library = NoLibrary
    /\ libraryHandle_ = "null"
    /\ initialized_ = FALSE
    /\ functionPointers = [i \in DOMAIN RequiredSymbols |-> "indeterminate"]
    /\ initializeResult = "none"

\* Version::isCompatibleWith
isCompatibleWith(self, other) ==
    IF self.major # other.major THEN FALSE
    ELSE IF self.minor < other.minor THEN FALSE
    ELSE IF self.minor = other.minor /\ self.patch < other.patch THEN FALSE
    ELSE TRUE

\* loadFunctions: the pointers are assigned in order up to the first symbol that
\* dlsym does not find
loadFunctions(lib) ==
    LET missing == {i \in DOMAIN RequiredSymbols : RequiredSymbols[i] \notin lib.symbols}
        stop == IF missing = {} THEN Len(RequiredSymbols) + 1 ELSE MinOf(missing)
    IN [ok |-> missing = {},
        pointers |-> [i \in DOMAIN RequiredSymbols |->
                         IF i < stop THEN "set"
                         ELSE IF i = stop THEN "null"
                         ELSE functionPointers[i]]]

\* getVersion with the function pointers as loadFunctions left them: it throws unless
\* the binding is initialized and versionFn_ is non-null
getVersion(lib, pointers) ==
    IF ~initialized_ \/ pointers[1] = "null"
    THEN [thrown |-> "BINDING_ERROR", version |-> RequiredVersion]
    ELSE [thrown |-> "none", version |-> lib.version]

\* initOpenMD
initOpenMD(lib, pointers) ==
    IF pointers[3] = "null" THEN FALSE ELSE lib.initReturn # 0

\* isAvailable
isAvailable == initialized_ /\ libraryHandle_ # "null"

\* initialize(libraryPath, configPath) where libraryPath leads to lib:
\* initializeResult is "true" when it returns true and the error code of the
\* OpenMDException otherwise
initialize(lib) ==
    /\ library' = lib
    /\ IF ~lib.loads
       THEN /\ libraryHandle_' = "null"
            /\ initializeResult' = "LIBRARY_NOT_FOUND"
            /\ UNCHANGED <<initialized_, functionPointers>>
       ELSE LET loaded == loadFunctions(lib)
                reported == getVersion(lib, loaded.pointers)
            IN /\ functionPointers' = loaded.pointers
               /\ IF ~loaded.ok
                  THEN /\ libraryHandle_' = "null"
                       /\ initializeResult' = "FUNCTION_NOT_FOUND"
                       /\ UNCHANGED initialized_
                  ELSE IF reported.thrown # "none"
                  THEN /\ libraryHandle_' = "open"
                       /\ initializeResult' = reported.thrown
                       /\ UNCHANGED initialized_
                  ELSE IF ~isCompatibleWith(reported.version, RequiredVersion)
                  THEN /\ libraryHandle_' = "null"
                       /\ initializeResult' = "INCOMPATIBLE_VERSION"
                       /\ UNCHANGED initialized_
                  ELSE IF ~initOpenMD(lib, loaded.pointers)
                  THEN /\ libraryHandle_' = "null"
                       /\ initializeResult' = "INITIALIZATION_FAILED"
                       /\ UNCHANGED initialized_
                  ELSE /\ libraryHandle_' = "open"
                       /\ initialized_' = TRUE
                       /\ initializeResult' = "true"
    /\ UNCHANGED <<tokenVars, lifecycleVars, geometricVars, reasoningVars>>

NextBinding == \E lib \in Libraries : initialize(lib)

----------------------------------------------------------------------------
(* AgentLifecycle(agentId): the reasoning state machine of one agent
   (agent_lifecycle.cpp, transitionTo) *)

MaxHistory == 3
FsmThreads == {"f1", "f2"}
AgentStates ==
    {"IDLE", "INITIALIZING", "ANALYZING", "PLANNING", "EXECUTING", "REFLECTING",
     "TERMINATING"}

\* what the callback given to setStateChangeCallback does: nothing with the object,
\* or a call of getCurrentState, getStateHistory or transitionTo on it
Callbacks == {"none", "observer", "getCurrentState", "getStateHistory", "transitionTo"}

\* setupValidTransitions: validTransitions_
setupValidTransitions ==
    [s \in AgentStates |->
        CASE s = "IDLE" -> {"INITIALIZING", "TERMINATING"}
          [] s = "INITIALIZING" -> {"ANALYZING", "TERMINATING"}
          [] s = "ANALYZING" -> {"PLANNING", "TERMINATING"}
          [] s = "PLANNING" -> {"EXECUTING", "ANALYZING", "TERMINATING"}
          [] s = "EXECUTING" -> {"REFLECTING", "TERMINATING"}
          [] s = "REFLECTING" -> {"ANALYZING", "IDLE", "TERMINATING"}
          [] s = "TERMINATING" -> {}]

\* isTransitionValid
isTransitionValid(from, to) ==
    /\ from \in DOMAIN setupValidTransitions
    /\ to \in setupValidTransitions[from]

NoCall == [newState |-> "IDLE", previousState |-> "IDLE", entryState |-> "IDLE",
           entryLen |-> 0]

\* AgentLifecycle(agentId) with no callback set
ReasoningInit ==
    /\ currentState_ = "IDLE"
    /\ stateHistory_ = <<>>
    /\ mutex_ = "none"
    /\ stateChangeCallback_ = "none"
    /\ fsmPc = [t \in FsmThreads |-> "idle"]
    /\ fsmCall = [t \in FsmThreads |-> NoCall]
    /\ fsmReturned = [t \in FsmThreads |-> "none"]
    /\ notified = <<>>

\* a transitionTo that goes on without owning mutex_
transitionToLockNotTaken(t, newState) ==
    /\ fsmPc[t] = "idle"
    /\ Len(stateHistory_) < MaxHistory
    /\ mutex_' = t
    /\ fsmPc' = [fsmPc EXCEPT ![t] = "locked"]
    /\ fsmCall' = [fsmCall EXCEPT ![t] = [newState |-> newState,
                                          previousState |-> currentState_,
                                          entryState |-> currentState_,
                                          entryLen |-> Len(stateHistory_)]]
    /\ UNCHANGED <<currentState_, stateHistory_, stateChangeCallback_, fsmReturned,
                   notified, tokenVars, lifecycleVars, geometricVars, bindingVars>>

\* transitionTo(newState), line 365: the lock_guard takes mutex_ when no thread owns
\* it.  fsmCall keeps the argument and what the call found on entry.
transitionToLock(t, newState) ==
    /\ fsmPc[t] = "idle"
    /\ Len(stateHistory_) < MaxHistory
    /\ mutex_ = "none"
    /\ mutex_' = t
    /\ fsmPc' = [fsmPc EXCEPT ![t] = "locked"]
    /\ fsmCall' = [fsmCall EXCEPT ![t] = [newState |-> newState,
                                          previousState |-> currentState_,
                                          entryState |-> currentState_,
                                          entryLen |-> Len(stateHistory_)]]
    /\ UNCHANGED <<currentState_, stateHistory_, stateChangeCallback_, fsmReturned,
                   notified, tokenVars, lifecycleVars, geometricVars, bindingVars>>

\* lines 368-373: an invalid transition returns false; a valid one sets currentState_
transitionToCheck(t) ==
    /\ fsmPc[t] = "locked"
    /\ IF ~isTransitionValid(currentState_, fsmCall[t].newState)
       THEN /\ mutex_' = "none"
            /\ fsmPc' = [fsmPc EXCEPT ![t] = "idle"]
            /\ fsmReturned' = [fsmReturned EXCEPT ![t] = "false"]
            /\ UNCHANGED <<currentState_, fsmCall>>
       ELSE /\ fsmCall' = [fsmCall EXCEPT ![t].previousState = currentState_]
            /\ currentState_' = fsmCall[t].newState
            /\ fsmPc' = [fsmPc EXCEPT ![t] = "updated"]
            /\ UNCHANGED <<mutex_, fsmReturned>>
    /\ UNCHANGED <<stateHistory_, stateChangeCallback_, notified, tokenVars,
                   lifecycleVars, geometricVars, bindingVars>>

\* lines 376-380: the transition is appended to stateHistory_
transitionToRecord(t) ==
    /\ fsmPc[t] = "updated"
    /\ stateHistory_' = Append(stateHistory_, [fromState |-> fsmCall[t].previousState,
                                               toState |-> fsmCall[t].newState])
    /\ fsmPc' = [fsmPc EXCEPT ![t] = "recorded"]
    /\ UNCHANGED <<currentState_, mutex_, stateChangeCallback_, fsmCall, fsmReturned,
                   notified, tokenVars, lifecycleVars, geometricVars, bindingVars>>

\* lines 383-390: the entry actions do nothing; the callback, if set, is called with
\* mutex_ still owned, and then true is returned.  A callback that calls
\* getCurrentState, getStateHistory or transitionTo locks the std::mutex its thread
\* owns: the thread blocks for ever, or the lock throws std::system_error, which
\* leaves transitionTo through the lock_guard.
transitionToNotify(t) ==
    /\ fsmPc[t] = "recorded"
    /\ notified' = IF stateChangeCallback_ = "none" THEN notified
                   ELSE Append(notified, [fromState |-> fsmCall[t].previousState,
                                          toState |-> fsmCall[t].newState])
    /\ IF stateChangeCallback_ \in {"none", "observer"}
       THEN /\ mutex_' = "none"
            /\ fsmPc' = [fsmPc EXCEPT ![t] = "idle"]
            /\ fsmReturned' = [fsmReturned EXCEPT ![t] = "true"]
       ELSE \/ /\ fsmPc' = [fsmPc EXCEPT ![t] = "deadlocked"]
               /\ UNCHANGED <<mutex_, fsmReturned>>
            \/ /\ mutex_' = "none"
               /\ fsmPc' = [fsmPc EXCEPT ![t] = "idle"]
               /\ fsmReturned' = [fsmReturned EXCEPT ![t] = "exception"]
    /\ UNCHANGED <<currentState_, stateHistory_, stateChangeCallback_, fsmCall,
                   tokenVars, lifecycleVars, geometricVars, bindingVars>>

NextReasoning ==
    \/ \E t \in FsmThreads, newState \in AgentStates : transitionToLock(t, newState)
    \/ \E t \in FsmThreads : transitionToCheck(t)
    \/ \E t \in FsmThreads : transitionToRecord(t)
    \/ \E t \in FsmThreads : transitionToNotify(t)

----------------------------------------------------------------------------
(* Specifications *)

\* every component after construction
Init == TokenInit /\ LifecycleInit /\ GeometricInit /\ BindingInit /\ ReasoningInit

OwnerStep ==
    \/ Start
    \/ Stop
    \/ StopBlocked
    \/ \E r \in ResourceTypes, c \in Configs : RegisterNew(r, c)
    \/ \E a \in QuotaAgents, r \in ResourceTypes, q \in QuotaValues : setAgentQuota(a, r, q)

ClientStep(t) ==
    \/ \E a \in Agents, r \in ResourceTypes, n \in TokensRequestedValues,
          to \in TimeoutValues : RequestUnknown(t, a, r, n, to)
    \/ \E a \in Agents, r \in ResourceTypes, n \in TokensRequestedValues,
          to \in TimeoutValues : RequestBegin(t, a, r, n, to)
    \/ ReqGetAllocation(t)
    \/ ReqLockBucket(t)
    \/ ReqStore(t)
    \/ \E id \in AllocationIds : ReleaseNotFound(t, id)
    \/ \E id \in AllocationIds : ReleaseFound(t, id)
    \/ ReleaseReturn(t)

BackgroundStep ==
    \/ \E r \in ResourceTypes : RefillBucket(r)
    \/ CleanupPassIdle
    \/ CleanupPassHang
    \/ CleanupPassTerminate

Next ==
    \/ OwnerStep
    \/ Tick
    \/ \E t \in Clients : ClientStep(t)
    \/ BackgroundStep

Spec == Init /\ [][Next]_vars

\* the same program with callers that also register a resource type a second time
NextRegister ==
    \/ Next
    \/ \E r \in ResourceTypes, c \in Configs : RegisterAgain(r, c)

SpecRegister == Init /\ [][NextRegister]_vars

\* A running manager at the moment of a refill: one bucket with any parameters, fill
\* level and lastRefill, the tokens missing from it held by one allocation, and the
\* clock anywhere at or after lastRefill.
InitRefill ==
    /\ \E config \in RefillConfigs, t \in 0..MaxRefillTime :
          \E currentTokens \in 0..config.maxTokens :
             LET held == config.maxTokens - currentTokens IN
             /\ buckets_ = [r \in ResourceTypes |->
                              [NewBucket(config, t) EXCEPT !.currentTokens = currentTokens]]
             /\ allocations_ =
                   IF held = 0 THEN EmptyMap
                   ELSE MapPut(EmptyMap, 1,
                               [allocationId |-> 1, agentId |-> "a1",
                                resourceType |-> "compute", tokensAllocated |-> held,
                                allocationTime |-> t, expirationTime |-> t + 1])
             /\ agentAllocations_ = [k \in Agents \X ResourceTypes |-> held]
             /\ idsIssued = IF held = 0 THEN 0 ELSE 1
             /\ now \in t..MaxRefillTime
    /\ bucketMutex = [r \in ResourceTypes |-> NoThread]
    /\ allocationsMutex_ = NoThread
    /\ agentQuotas_ = EmptyMap
    /\ quotasMutex_ = NoThread
    /\ running_ = TRUE
    /\ stopRequested_ = FALSE
    /\ pc = [t \in Threads |-> IF t \in Clients THEN "idle" ELSE "loop"]
    /\ req = [t \in Clients |-> NoRequest]
    /\ quotaSeen = [t \in Clients |-> NoQuota]
    /\ alloc = [t \in Clients |-> NoAllocation]
    /\ result = [t \in Clients |-> NoResult]
    /\ registerResult = TRUE
    /\ crashed = FALSE
    /\ creditCount = [id \in AllocationIds |-> 0]
    /\ trueCount = [id \in AllocationIds |-> 0]
    /\ LifecycleInit
    /\ BindingInit
    /\ ReasoningInit
    /\ GeometricInit

\* the refill thread and the clock
NextRefill ==
    \/ Tick
    \/ \E r \in ResourceTypes : RefillBucket(r)

SpecRefill == InitRefill /\ [][NextRefill]_vars

\* Two agents competing for a resource of one token that is never refilled: the agent
\* on each client thread asks for the token again after every denial and releases it
\* once it has been granted.
ScenarioAgents == {"s1", "s2"}
ScenarioAgent(t) == IF t = "t1" THEN "s1" ELSE "s2"
ScenarioConfig == [maxTokens |-> 1, refillRate |-> 0, burstSize |-> 1, refillInterval |-> 1]

Granted(t) == result[t].op = "request" /\ result[t].success

InitScenario ==
    /\ buckets_ = [r \in ResourceTypes |-> NewBucket(ScenarioConfig, 0)]
    /\ bucketMutex = [r \in ResourceTypes |-> NoThread]
    /\ allocations_ = EmptyMap
    /\ allocationsMutex_ = NoThread
    /\ agentAllocations_ = [k \in ScenarioAgents \X ResourceTypes |-> 0]
    /\ agentQuotas_ = EmptyMap
    /\ quotasMutex_ = NoThread
    /\ running_ = TRUE
    /\ stopRequested_ = FALSE
    /\ now = 0
    /\ idsIssued = 0
    /\ pc = [t \in Threads |-> IF t \in Clients THEN "idle" ELSE "loop"]
    /\ req = [t \in Clients |-> NoRequest]
    /\ quotaSeen = [t \in Clients |-> NoQuota]
    /\ alloc = [t \in Clients |-> NoAllocation]
    /\ result = [t \in Clients |-> NoResult]
    /\ registerResult = TRUE
    /\ crashed = FALSE
    /\ creditCount = [id \in AllocationIds |-> 0]
    /\ trueCount = [id \in AllocationIds |-> 0]
    /\ LifecycleInit
    /\ BindingInit
    /\ ReasoningInit
    /\ GeometricInit

\* the agent on thread t: request until granted, then release
ScenarioClientStep(t) ==
    \/ /\ result[t].op # "release"
       /\ ~Granted(t)
       /\ \E r \in ResourceTypes, timeout \in TimeoutValues :
             RequestBegin(t, ScenarioAgent(t), r, 1, timeout)
    \/ ReqLockBucket(t)
    \/ ReqStore(t)
    \/ /\ Granted(t)
       /\ ReleaseFound(t, result[t].allocationId)
    \/ ReleaseReturn(t)

ScenarioBackgroundStep ==
    \/ Tick
    \/ \E r \in ResourceTypes : RefillBucket(r)
    \/ CleanupPassIdle
    \/ CleanupPassHang
    \/ CleanupPassTerminate

NextScenario ==
    \/ \E t \in Clients : ScenarioClientStep(t)
    \/ ScenarioBackgroundStep

\* every thread that can take a step eventually takes one
SpecScenario ==
    /\ InitScenario
    /\ [][NextScenario]_vars
    /\ \A t \in Clients : WF_vars(ScenarioClientStep(t))
    /\ WF_vars(ScenarioBackgroundStep)

\* A partitioner constructed with any dimensions and maxDepth and given a list of
\* points by addPoint, and a fresh assigner
InitGeometric ==
    /\ TokenInit
    /\ LifecycleInit
    /\ BindingInit
    /\ ReasoningInit
    /\ dimensions_ \in Dimensions
    /\ maxDepth_ \in 0..MaxKdDepth
    /\ points_ \in PointLists(dimensions_)
    /\ regions_ = <<>>
    /\ built = "none"
    /\ assignerRegions_ = <<>>
    /\ adjacencyGraph_ = EmptyMap
    /\ coloredRegions_ = <<>>
    /\ assigned = "none"
    /\ root_ = NoNode
    /\ found = NoFound
    /\ verified = "none"

SpecGeometric == InitGeometric /\ [][NextGeometric]_vars

\* The assigner alone.  setRegions takes any vector of regions: here up to MaxRegions
\* regions with the ids 1, 2, ... whose boxes are drawn from three unit squares around
\* the point (1,1) and one square away from them, or up to NumColors regions which
\* are all the one-point box at (1,1).
MaxRegions == 5
RegionBoxes ==
    { [min |-> <<0, 0>>, max |-> <<1, 1>>],
      [min |-> <<1, 0>>, max |-> <<2, 1>>],
      [min |-> <<1, 1>>, max |-> <<2, 2>>],
      [min |-> <<3, 3>>, max |-> <<4, 4>>] }
PointBox == [min |-> <<1, 1>>, max |-> <<1, 1>>]
RegionLists ==
    LET Numbered(boxes) ==
           [i \in DOMAIN boxes |->
               [id |-> i, points |-> <<>>, min |-> boxes[i].min, max |-> boxes[i].max]]
    IN { Numbered(boxes) : boxes \in UNION {[1..n -> RegionBoxes] : n \in 0..MaxRegions} }
       \cup { Numbered([i \in 1..n |-> PointBox]) : n \in 1..NumColors }

\* a fresh assigner after setRegions(regions)
InitAssigner ==
    /\ TokenInit
    /\ LifecycleInit
    /\ BindingInit
    /\ ReasoningInit
    /\ dimensions_ = 2
    /\ maxDepth_ = 0
    /\ points_ = <<>>
    /\ regions_ = <<>>
    /\ built = "none"
    /\ assignerRegions_ \in RegionLists
    /\ adjacencyGraph_ = EmptyMap
    /\ coloredRegions_ = <<>>
    /\ assigned = "none"
    /\ root_ = NoNode
    /\ found = NoFound
    /\ verified = "none"

NextAssigner ==
    \/ determineAdjacency
    \/ assignColors
    \/ verifyColoring

SpecAssigner == InitAssigner /\ [][NextAssigner]_vars

\* the partitioner alone: the tree is built, at one depth limit or another, and its
\* points are looked up
NextFind ==
    \/ \E depth \in 0..MaxKdDepth : setMaxDepth(depth)
    \/ buildKdTree
    \/ \E i \in DOMAIN points_ : findRegion(points_[i])

SpecFind == InitGeometric /\ [][NextFind]_vars

\* Two agents requesting and releasing on one registered resource type, from either
\* client thread
InitHoldings ==
    /\ \E config \in Configs : buckets_ = [r \in ResourceTypes |-> NewBucket(config, 0)]
    /\ bucketMutex = [r \in ResourceTypes |-> NoThread]
    /\ allocations_ = EmptyMap
    /\ allocationsMutex_ = NoThread
    /\ agentAllocations_ = [k \in ScenarioAgents \X ResourceTypes |-> 0]
    /\ agentQuotas_ = EmptyMap
    /\ quotasMutex_ = NoThread
    /\ running_ = FALSE
    /\ stopRequested_ = FALSE
    /\ now = 0
    /\ idsIssued = 0
    /\ pc = [t \in Threads |-> IF t \in Clients THEN "idle" ELSE "not_started"]
    /\ req = [t \in Clients |-> NoRequest]
    /\ quotaSeen = [t \in Clients |-> NoQuota]
    /\ alloc = [t \in Clients |-> NoAllocation]
    /\ result = [t \in Clients |-> NoResult]
    /\ registerResult = TRUE
    /\ crashed = FALSE
    /\ creditCount = [id \in AllocationIds |-> 0]
    /\ trueCount = [id \in AllocationIds |-> 0]
    /\ LifecycleInit
    /\ BindingInit
    /\ ReasoningInit
    /\ GeometricInit

HoldingsClientStep(t) ==
    \/ \E a \in ScenarioAgents, r \in ResourceTypes, n \in TokensRequestedValues,
          to \in TimeoutValues : RequestBegin(t, a, r, n, to)
    \/ ReqLockBucket(t)
    \/ ReqStore(t)
    \/ \E id \in AllocationIds : ReleaseNotFound(t, id)
    \/ \E id \in AllocationIds : ReleaseFound(t, id)
    \/ ReleaseReturn(t)

NextHoldings == \E t \in Clients : HoldingsClientStep(t)

SpecHoldings == InitHoldings /\ [][NextHoldings]_vars

\* the same callers asking for zero or a negative number of tokens as well
NonPositiveTokens == {-1, 0}

NonPositiveClientStep(t) ==
    \/ \E a \in ScenarioAgents, r \in ResourceTypes,
          n \in NonPositiveTokens \cup TokensRequestedValues, to \in TimeoutValues :
             RequestBegin(t, a, r, n, to)
    \/ ReqLockBucket(t)
    \/ ReqStore(t)
    \/ \E id \in AllocationIds : ReleaseFound(t, id)
    \/ ReleaseReturn(t)

NextNonPositive == \E t \in Clients : NonPositiveClientStep(t)

SpecNonPositive == InitHoldings /\ [][NextNonPositive]_vars

\* the agent lifecycle manager with its callers
SpecLifecycle == Init /\ [][NextLifecycle]_vars

\* A fresh binding; every call of initialize finds one of the libraries
SpecBinding == Init /\ [][NextBinding]_vars

\* One reasoning state machine after setStateChangeCallback(callback), used by the
\* threads of FsmThreads
InitReasoning ==
    /\ TokenInit
    /\ LifecycleInit
    /\ GeometricInit
    /\ BindingInit
    /\ currentState_ = "IDLE"
    /\ stateHistory_ = <<>>
    /\ mutex_ = "none"
    /\ stateChangeCallback_ \in Callbacks
    /\ fsmPc = [t \in FsmThreads |-> "idle"]
    /\ fsmCall = [t \in FsmThreads |-> NoCall]
    /\ fsmReturned = [t \in FsmThreads |-> "none"]
    /\ notified = <<>>

SpecReasoning == InitReasoning /\ [][NextReasoning]_vars


----------------------------------------------------------------------------
(* Derived quantities *)

RECURSIVE SumTokens(_)
\* sum of tokensAllocated over a set of allocation ids of the table
SumTokens(ids) ==
    IF ids = {} THEN 0
    ELSE LET id == CHOOSE x \in ids : TRUE
         IN allocations_[id].tokensAllocated + SumTokens(ids \ {id})

\* tokens of a grant that left the bucket and is not in the table yet: the thread
\* holds bucket.mutex and stands before the lock of allocationsMutex_
InFlight(resourceType) ==
    IF bucketMutex[resourceType] \in Clients
    THEN alloc[bucketMutex[resourceType]].tokensAllocated
    ELSE 0

\* tokens out of the bucket of a resource type: its allocations in the table and the
\* grant in flight
Outstanding(resourceType) ==
    SumTokens({id \in DOMAIN allocations_ :
                 allocations_[id].resourceType = resourceType}) + InFlight(resourceType)

\* thread t enters releaseResources(allocationId) in this step
ReleaseEntry(t, allocationId) ==
    /\ pc[t] = "idle"
    /\ \/ pc'[t] = "rel_bucket" /\ alloc'[t].allocationId = allocationId
       \/ /\ pc'[t] = "idle"
          /\ result'[t].op = "release"
          /\ result'[t].allocationId = allocationId
          /\ result'[t] # result[t]

\* thread t enters requestResources in this step
RequestEntry(t) ==
    /\ pc[t] = "idle"
    /\ \/ pc'[t] \in RequestPcs
       \/ pc'[t] = "idle" /\ result'[t].op = "request" /\ result'[t] # result[t]

----------------------------------------------------------------------------
(* Claims *)

\* C1: with requests of at least one token and buckets registered with non-negative
\* parameters, after any interleaving of requests, releases, refills and sweeps every
\* bucket has 0 <= currentTokens <= maxTokens.
C1_TokensWithinBounds ==
    \A r \in DOMAIN buckets_ :
        /\ 0 <= buckets_[r].currentTokens
        /\ buckets_[r].currentTokens <= buckets_[r].maxTokens

\* C1 witness: a bucket is full again while one of its allocations is outstanding,
\* which is where an uncapped refill or release would overshoot.
C1_Witness ==
    \E r \in DOMAIN buckets_ :
        /\ buckets_[r].currentTokens = buckets_[r].maxTokens
        /\ Outstanding(r) > 0
        /\ buckets_[r].lastRefill > 0
        /\ \E id \in AllocationIds : creditCount[id] = 1

C3_GrantWithinQuota ==
    [][\A t \in Clients :
          (/\ pc[t] = "req_store"
           /\ pc'[t] = "idle"
           /\ quotaSeen[t] # NoQuota
           /\ <<alloc[t].agentId, alloc[t].resourceType>> \in DOMAIN agentQuotas_
           /\ agentQuotas_[<<alloc[t].agentId, alloc[t].resourceType>>] = quotaSeen[t])
          => getAgentAllocation(alloc[t].agentId, alloc[t].resourceType)
               + alloc[t].tokensAllocated <= quotaSeen[t]]_vars

\* C4: the allocation-table lock is only taken after the bucket lock, so a request and
\* a release on the same resource never wait for each other's lock.
C4_NoRequestReleaseDeadlock ==
    ~ \E t \in Clients, u \in Clients :
        /\ pc[t] = "req_store"
        /\ bucketMutex[alloc[t].resourceType] = t
        /\ allocationsMutex_ = u
        /\ pc[u] = "rel_bucket"
        /\ alloc[u].resourceType = alloc[t].resourceType

\* C5: every pass of the expiration sweep completes and releases the allocation-table
\* lock, so that expired allocations are removed and their tokens returned.
C5_SweepPassCompletes ==
    /\ ~crashed
    /\ ~(pc[CleanupThread] = "relock" /\ allocationsMutex_ = CleanupThread)

\* C6: the tokens of an allocation are returned to the bucket at most once, and at most
\* one releaseResources call for its id returns true.
C6_ReleasedAtMostOnce ==
    \A id \in AllocationIds : creditCount[id] <= 1 /\ trueCount[id] <= 1

\* C6 witness: two threads called releaseResources for the same allocation; one call
\* credited the bucket and returned true, the other returned false.
C6_Witness ==
    \E id \in AllocationIds, t \in Clients, u \in Clients :
        /\ creditCount[id] = 1
        /\ trueCount[id] = 1
        /\ result[t] = [op |-> "release", success |-> TRUE, tokensAllocated |-> 0,
                        allocationId |-> id, errorMessage |-> ""]
        /\ result[u] = [op |-> "release", success |-> FALSE, tokensAllocated |-> 0,
                        allocationId |-> id, errorMessage |-> ""]

\* C7: releaseResources with an id that is not in the allocation table returns false
\* and changes no bucket, no allocation and no agent's holdings.
C7_UnknownReleaseNoEffect ==
    [][\A t \in Clients, id \in AllocationIds :
          (ReleaseEntry(t, id) /\ id \notin DOMAIN allocations_)
          => /\ pc'[t] = "idle"
             /\ result'[t].op = "release"
             /\ result'[t].success = FALSE
             /\ UNCHANGED <<buckets_, allocations_, agentAllocations_>>]_vars

\* C7 witness: one release call returned false for an id that was never issued and
\* another returned false for an id that had already been released.
C7_Witness ==
    \E t \in Clients, u \in Clients :
        /\ result[t].op = "release"
        /\ ~result[t].success
        /\ result[t].allocationId > idsIssued
        /\ result[u].op = "release"
        /\ ~result[u].success
        /\ result[u].allocationId \in AllocationIds
        /\ trueCount[result[u].allocationId] = 1

\* C8: releaseResources on an outstanding allocation finds it in the table and, when it
\* returns, returns true, has removed the allocation, has set the bucket's currentTokens
\* to min(currentTokens + tokensAllocated, maxTokens) and has lowered the owning agent's
\* holdings of that resource by exactly tokensAllocated.
C8_ReleaseReturnsTokens ==
    [][\A t \in Clients :
          /\ \A id \in DOMAIN allocations_ :
                ReleaseEntry(t, id) =>
                    /\ pc'[t] = "rel_bucket"
                    /\ alloc'[t] = allocations_[id]
          /\ (pc[t] = "rel_bucket" /\ pc'[t] # "rel_bucket") =>
                LET a == alloc[t]
                    r == a.resourceType
                IN /\ pc'[t] = "idle"
                   /\ result'[t].op = "release"
                   /\ result'[t].success = TRUE
                   /\ a.allocationId \in DOMAIN allocations_
                   /\ allocations_' = MapErase(allocations_, a.allocationId)
                   /\ buckets_'[r].currentTokens =
                        Min(buckets_[r].currentTokens + a.tokensAllocated,
                            buckets_[r].maxTokens)
                   /\ agentAllocations_' =
                        [agentAllocations_ EXCEPT ![<<a.agentId, r>>] =
                            @ - a.tokensAllocated]]_vars

\* C8 witness: a release returned true and its agent still holds tokens of another
\* allocation.
C8_Witness ==
    \E t \in Clients, id \in AllocationIds :
        /\ result[t].op = "release"
        /\ result[t].success
        /\ trueCount[id] = 1
        /\ \E other \in DOMAIN allocations_ :
              getAgentAllocation(allocations_[other].agentId,
                                 allocations_[other].resourceType) > 0

\* C9: a request that is denied (unknown resource type, quota exceeded, fewer tokens
\* available than requested) returns, in the step that finds the cause, a result with
\* success = false and tokensAllocated = 0; it creates no allocation, lowers no bucket's
\* currentTokens and changes no agent's holdings.
C9_DenialNoEffect ==
    [][\A t \in Clients :
          LET unknown == /\ RequestEntry(t)
                         /\ \A r \in ResourceTypes : r \notin DOMAIN buckets_
              overQuota == /\ pc[t] = "req_holdings"
                           /\ pc'[t] # "req_holdings"
                           /\ getAgentAllocation(req[t].agentId, req[t].resourceType)
                                + req[t].tokensRequested > quotaSeen[t]
              shortage == /\ pc[t] = "req_lock"
                          /\ pc'[t] # "req_lock"
                          /\ refillBucket(buckets_[req[t].resourceType], now).currentTokens
                                < req[t].tokensRequested
          IN (unknown \/ overQuota \/ shortage)
              => /\ pc'[t] = "idle"
                 /\ result'[t].op = "request"
                 /\ result'[t].success = FALSE
                 /\ result'[t].tokensAllocated = 0
                 /\ UNCHANGED <<allocations_, agentAllocations_, idsIssued>>
                 /\ DOMAIN buckets_' = DOMAIN buckets_
                 /\ \A r \in DOMAIN buckets_ :
                       buckets_'[r].currentTokens >= buckets_[r].currentTokens]_vars

\* C9 witness: a request was denied for lack of tokens on a bucket that another
\* allocation has emptied.
C9_Witness ==
    \E t \in Clients, r \in DOMAIN buckets_ :
        /\ pc[t] = "idle"
        /\ result[t].op = "request"
        /\ ~result[t].success
        /\ result[t].errorMessage = "Insufficient tokens available"
        /\ buckets_[r].currentTokens = 0
        /\ Outstanding(r) > 0

\* C10: registerResource on a resource type that already has a bucket returns false and
\* leaves that bucket as it was.
C10_RegisterTwiceRejected ==
    [][\A r \in ResourceTypes, c \in Configs :
          RegisterAgain(r, c) => (registerResult' = FALSE /\ buckets_' = buckets_)]_vars

\* C11: a refill at time now with elapsed = now - lastRefill >= refillInterval adds
\* min(floor(elapsed / refillInterval) * refillRate, burstSize) tokens, capped at
\* maxTokens, and advances lastRefill by exactly floor(elapsed / refillInterval) *
\* refillInterval; with elapsed < refillInterval the bucket is unchanged.
C11_RefillArithmetic ==
    [][\A r \in DOMAIN buckets_ :
          RefillBucket(r) =>
             LET bucket == buckets_[r]
                 elapsed == now - bucket.lastRefill
                 intervals == elapsed \div bucket.refillInterval
             IN IF elapsed >= bucket.refillInterval
                THEN /\ buckets_'[r].currentTokens =
                          Min(bucket.currentTokens
                                + Min(intervals * bucket.refillRate, bucket.burstSize),
                              bucket.maxTokens)
                     /\ buckets_'[r].lastRefill =
                          bucket.lastRefill + intervals * bucket.refillInterval
                ELSE buckets_'[r] = bucket]_vars

\* C12: with one token and no refill, two agents that each keep requesting the token
\* and release it after a grant never hold more than one allocation between them, and
\* under fair scheduling each of them is eventually granted while the manager runs.
C12_ExclusiveAndEventuallyGranted ==
    /\ [](Cardinality(DOMAIN allocations_)
            + Cardinality({t \in Clients : pc[t] = "req_store"}) <= 1)
    /\ \A t \in Clients : <>(Granted(t) \/ crashed \/ ~running_)

\* C13: with only the default transitions, triggerEvent(agent, e) for an agent in state s
\* is accepted with target t, moves the agent to t and returns true exactly when
\* (s, e, t) is a row of the transition table: the ten listed rows and Terminate from
\* each of the six other states to Terminated; for every other (s, e) it returns false.
C13_AcceptedIffTableRow ==
 [][LET table ==
          { <<"UNINITIALIZED", "INITIALIZE", "INITIALIZING">>,
            <<"INITIALIZING", "INITIALIZATION_COMPLETE", "READY">>,
            <<"INITIALIZING", "INITIALIZATION_FAILED", "ERROR">>,
            <<"READY", "START", "RUNNING">>,
            <<"RUNNING", "STOP", "READY">>,
            <<"RUNNING", "PAUSE", "PAUSED">>,
            <<"PAUSED", "RESUME", "RUNNING">>,
            <<"PAUSED", "STOP", "READY">>,
            <<"RUNNING", "ERROR_OCCURRED", "ERROR">>,
            <<"ERROR", "RECOVERY_COMPLETE", "READY">> }
          \cup {<<s, "TERMINATE", "TERMINATED">> : s \in States \ {"TERMINATED"}}
    IN  \A t \in LcThreads :
            /\ \A a \in LcAgentIds, e \in Events :
                  transitions_ = setupDefaultTransitions =>
                     /\ (Len(callStack'[t]) > Len(callStack[t])
                           /\ TriggerAccepted(t, a, e)) =>
                           <<agents_[a].currentState, e,
                             callStack'[t][Len(callStack'[t])].targetState>> \in table
                     /\ (returned'.thread = t /\ a \in DOMAIN agents_
                           /\ TriggerRejected(t, a, e)) =>
                           \A row \in table :
                              ~(row[1] = agents_[a].currentState /\ row[2] = e)
            /\ UpdateState(t) =>
                  agents_'[Top(t).agentId].currentState = Top(t).targetState
            /\ Len(callStack'[t]) < Len(callStack[t]) =>
                  returned' = [thread |-> t, value |-> TRUE]]_vars

\* a call accepted from the default table has returned true and left the agent in PAUSED
C13_Witness ==
    /\ transitions_ = setupDefaultTransitions
    /\ "g1" \in DOMAIN agents_
    /\ agents_["g1"].currentState = "PAUSED"
    /\ agents_["g1"].previousState = "RUNNING"
    /\ returned = [thread |-> "c1", value |-> TRUE]

\* C14: TERMINATED is absorbing: whatever sequence of createAgent, triggerEvent and
\* handler registrations runs, and whatever the handlers do, an agent whose currentState
\* is TERMINATED keeps that state.
C14_TerminatedAbsorbing ==
    [][\A a \in DOMAIN agents_ :
          agents_[a].currentState = "TERMINATED" =>
             agents_'[a].currentState = "TERMINATED"]_vars

\* C15: a triggerEvent call that is rejected, for an unknown agent or for a (state, event)
\* pair without a transition, returns false, invokes no handler and leaves currentState
\* and previousState of every agent unchanged.
C15_RejectionNoEffect ==
    [][/\ \A t \in LcThreads :
             (/\ returned'.thread = t
              /\ \E a \in LcAgentIds \cup UnknownAgentIds, e \in Events :
                    TriggerRejected(t, a, e)) =>
                /\ returned'.value = FALSE
                /\ callStack' = callStack
                /\ agents_' = agents_
       /\ (returned' # returned /\ returned'.value = FALSE) =>
             (callStack' = callStack /\ agents_' = agents_)]_vars

\* Pause was rejected for an agent in READY, a state with an exit handler, after the
\* agent had moved: its two states differ and no call is left running
C15_Witness ==
    /\ returned = [thread |-> "c1", value |-> FALSE]
    /\ \A t \in LcThreads : callStack[t] = <<>>
    /\ "g1" \in DOMAIN agents_
    /\ agents_["g1"].currentState = "READY"
    /\ agents_["g1"].previousState = "RUNNING"
    /\ "READY" \in stateExitHandlers_
    /\ ~HasTransition("g1", "PAUSE")

\* C16: an accepted event runs exit(old), the transition handler, the state update and
\* entry(new) once each in this order; the exit and the transition handler observe
\* currentState = old, the entry handler observes currentState = new and
\* previousState = old.
C16_HandlersObserveStates ==
    \A t \in LcThreads : \A i \in DOMAIN callStack[t] :
       LET frame == callStack[t][i]
           context == agents_[frame.agentId]
       IN /\ frame.pc \in {"exit", "transition"} =>
                context.currentState = frame.currentState
          /\ frame.pc = "entry" =>
                /\ context.currentState = frame.targetState
                /\ context.previousState = frame.currentState

\* C17: a handler that calls triggerEvent for the agent it is running for is detected
\* as re-entrant and the call is rejected: no call is accepted inside another call for
\* the same agent.
C17_ReentranceRejected ==
    \A t \in LcThreads : \A i \in DOMAIN callStack[t], j \in DOMAIN callStack[t] :
       i # j => callStack[t][i].agentId # callStack[t][j].agentId

\* C18: concurrent triggerEvent calls for one agent are serialisable: of two concurrent
\* Start events on an agent in READY only one is accepted and returns true.
C18_OneOfTwoStartsAccepted ==
    ~ \E t \in LcThreads, u \in LcThreads :
        /\ t # u
        /\ callStack[t] # <<>>
        /\ callStack[u] # <<>>
        /\ callStack[t][1].agentId = callStack[u][1].agentId
        /\ callStack[t][1].event = "START" /\ callStack[u][1].event = "START"
        /\ callStack[t][1].currentState = "READY"
        /\ callStack[u][1].currentState = "READY"

\* C19: whenever assignColors returns true for regions produced by buildKdTree, after
\* setRegions and determineAdjacency, every region has a color in 0..3 and no two
\* regions that areRegionsAdjacent reports as adjacent have the same color.
C19_ProperColoring ==
    assigned = "true" =>
       /\ \A i \in DOMAIN coloredRegions_ : coloredRegions_[i].color \in 0..3
       /\ \A i \in DOMAIN assignerRegions_, j \in DOMAIN assignerRegions_ :
             (i # j /\ areRegionsAdjacent(assignerRegions_[i], assignerRegions_[j]))
                => coloredRegions_[i].color # coloredRegions_[j].color

\* C20: after buildKdTree the ids of the leaf regions returned by getRegions are
\* pairwise distinct.
C20_LeafIdsDistinct ==
    built = "true" =>
       \A i \in DOMAIN regions_, j \in DOMAIN regions_ :
          i # j => regions_[i].id # regions_[j].id

\* C28: after any sequence and interleaving of requestResources (tokensRequested >= 1)
\* and releaseResources calls, getAgentAllocation(a, r) is the sum of tokensAllocated
\* over the outstanding allocations of agent a on resource type r, and 0 without any.
C28_HoldingsMatchAllocations ==
    \A a \in ScenarioAgents, r \in ResourceTypes :
       getAgentAllocation(a, r) =
          SumTokens({id \in DOMAIN allocations_ :
                       /\ allocations_[id].agentId = a
                       /\ allocations_[id].resourceType = r})

\* after one allocation was released, agent s2 holds the tokens of another and s1 none
C28_Witness ==
    /\ \E id \in AllocationIds : trueCount[id] = 1
    /\ \E id \in DOMAIN allocations_ :
          /\ allocations_[id].agentId = "s2"
          /\ getAgentAllocation("s2", allocations_[id].resourceType)
                = allocations_[id].tokensAllocated
          /\ getAgentAllocation("s1", allocations_[id].resourceType) = 0

\* C27: a requestResources call with tokensRequested <= 0 is never granted: it creates
\* no allocation, does not change currentTokens of the bucket and does not change the
\* holdings of the agent.
C27_NonPositiveNeverGranted ==
    [][\A t \in Clients :
          (pc[t] \in RequestPcs /\ req[t].tokensRequested <= 0 /\ pc'[t] # pc[t]) =>
             /\ pc'[t] = "idle"
             /\ ~result'[t].success
             /\ allocations_' = allocations_
             /\ agentAllocations_' = agentAllocations_
             /\ \A r \in DOMAIN buckets_ :
                   buckets_'[r].currentTokens = buckets_[r].currentTokens]_vars

\* C21: for nine 2-D points forming a 3x3 grid and a max depth large enough for nine
\* leaves, buildKdTree yields 9 regions, determineAdjacency yields the 3x3 grid graph
\* (two regions are neighbours exactly when their points are one step apart),
\* assignColors returns true and verifyColoring returns true.
C21_GridExample ==
    [][(/\ dimensions_ = 2
        /\ maxDepth_ >= 4
        /\ points_ = [i \in 1..9 |-> PatternPoint("square", 2, i)]) =>
          /\ buildKdTree => Len(regions_') = 9
          /\ (determineAdjacency /\ assignerRegions_ = regions_) =>
                \A i \in DOMAIN assignerRegions_, j \in DOMAIN assignerRegions_ :
                   LET p == assignerRegions_[i].points[1]
                       q == assignerRegions_[j].points[1]
                       dx == IF p[1] >= q[1] THEN p[1] - q[1] ELSE q[1] - p[1]
                       dy == IF p[2] >= q[2] THEN p[2] - q[2] ELSE q[2] - p[2]
                   IN (/\ assignerRegions_[i].id \in DOMAIN adjacencyGraph_'
                       /\ assignerRegions_[j].id
                             \in adjacencyGraph_'[assignerRegions_[i].id])
                      <=> (dx + dy = 1)
          /\ (assignColors /\ DOMAIN adjacencyGraph_ # {}) => assigned' = "true"
          /\ (verifyColoring /\ assigned = "true") => verified' = "true"]_vars

\* C29: after buildKdTree, findRegion(p) for an input point p returns the one leaf of
\* the tree whose member points include p.
C29_FindReturnsOwnLeaf ==
    [][\A i \in DOMAIN points_ :
          (/\ built = "true"
           /\ found'.point = points_[i]
           /\ findRegion(points_[i])) =>
             \E k \in DOMAIN regions_ :
                /\ found'.region = regions_[k]
                /\ \E m \in DOMAIN regions_[k].points :
                      regions_[k].points[m] = points_[i]
                /\ \A j \in DOMAIN regions_ :
                      (\E m \in DOMAIN regions_[j].points :
                          regions_[j].points[m] = points_[i]) => j = k]_vars

\* C29 witness: a point was looked up in a tree of at least three leaves and the
\* lookup gave the last leaf, which holds it
C29_Witness ==
    /\ built = "true"
    /\ Len(regions_) >= 3
    /\ found.region = regions_[Len(regions_)]
    /\ \E m \in DOMAIN found.region.points : found.region.points[m] = found.point

\* C22: after buildKdTree the boxes of the leaf regions are pairwise interior-disjoint
\* and their union is the bounding box of the input points (every leaf box lies in the
\* bounding box, and every unit cell of the bounding box lies in a leaf box); every
\* input point is a member of exactly one leaf region, as often as it was added, and
\* lies within that region's min and max.
C22_LeavesPartitionBoundingBox ==
    built = "true" =>
       LET dims == 1..dimensions_
           lo == [d \in dims |-> MinOf({points_[i][d] : i \in DOMAIN points_})]
           hi == [d \in dims |-> MaxOf({points_[i][d] : i \in DOMAIN points_})]
           Cells(d) == IF lo[d] = hi[d] THEN {<<lo[d], lo[d]>>}
                       ELSE {<<a, a + 1>> : a \in lo[d]..(hi[d] - 1)}
           CellBoxes == {c \in [dims -> UNION {Cells(d) : d \in dims}] :
                            \A d \in dims : c[d] \in Cells(d)}
           Holds(k, p) == \E m \in DOMAIN regions_[k].points : regions_[k].points[m] = p
           Count(seq, p) == Cardinality({m \in DOMAIN seq : seq[m] = p})
       IN /\ \A i \in DOMAIN regions_, j \in DOMAIN regions_ :
                i < j => \E d \in dims : \/ regions_[i].max[d] <= regions_[j].min[d]
                                         \/ regions_[j].max[d] <= regions_[i].min[d]
          /\ \A k \in DOMAIN regions_ :
                \A d \in dims : /\ lo[d] <= regions_[k].min[d]
                                /\ regions_[k].min[d] <= regions_[k].max[d]
                                /\ regions_[k].max[d] <= hi[d]
          /\ \A c \in CellBoxes :
                \E k \in DOMAIN regions_ :
                   \A d \in dims : /\ regions_[k].min[d] <= c[d][1]
                                   /\ c[d][2] <= regions_[k].max[d]
          /\ \A i \in DOMAIN points_ :
                \E k \in DOMAIN regions_ :
                   /\ Holds(k, points_[i])
                   /\ \A j \in DOMAIN regions_ : Holds(j, points_[i]) => j = k
                   /\ Count(regions_[k].points, points_[i]) = Count(points_, points_[i])
                   /\ \A d \in dims : /\ regions_[k].min[d] <= points_[i][d]
                                   /\ points_[i][d] <= regions_[k].max[d]

\* C22 witness: a build of two-dimensional points gave at least three leaves
C22_Witness ==
    /\ built = "true"
    /\ dimensions_ = 2
    /\ Len(regions_) >= 3

\* C23: areRegionsAdjacent(R, S) is true exactly when the bounds of R and S touch
\* along exactly one axis and overlap along every other axis; it is symmetric; boxes
\* whose bounds touch along two or more axes are not adjacent.  determineAdjacency
\* enters exactly these pairs.
C23_AdjacentIffOneAxisTouches ==
    [][(determineAdjacency /\ DOMAIN adjacencyGraph_ = {}) =>
          \A i \in DOMAIN assignerRegions_, j \in DOMAIN assignerRegions_ :
             i < j =>
                LET R == assignerRegions_[i]
                    S == assignerRegions_[j]
                    axes == DOMAIN R.min
                    touch(d) == R.min[d] = S.max[d] \/ R.max[d] = S.min[d]
                    overlap(d) == R.max[d] >= S.min[d] /\ R.min[d] <= S.max[d]
                    claimed == /\ Cardinality({d \in axes : touch(d)}) = 1
                               /\ \A d \in axes : ~touch(d) => overlap(d)
                IN /\ areRegionsAdjacent(R, S) <=> claimed
                   /\ areRegionsAdjacent(R, S) <=> areRegionsAdjacent(S, R)
                   /\ (/\ R.id \in DOMAIN adjacencyGraph_'
                       /\ S.id \in adjacencyGraph_'[R.id]) <=> claimed]_vars

\* C25: for regions with pairwise distinct ids whose adjacency has been determined,
\* assignColors returns true exactly when the adjacency graph has a proper coloring
\* with 4 colors (a graph without any adjacent pair has one), and the coloring it
\* returns is the lexicographically smallest proper coloring in region order.
C25_TrueIffFourColorable ==
    [][LET n == Len(assignerRegions_)
           id(i) == assignerRegions_[i].id
           Adj(i, j) == id(i) \in DOMAIN adjacencyGraph_ /\ id(j) \in adjacencyGraph_[id(i)]
           determined ==
              \A i \in 1..n, j \in 1..n :
                 Adj(i, j) <=> (i # j /\ areRegionsAdjacent(assignerRegions_[i],
                                                            assignerRegions_[j]))
           Colorings == {f \in [1..n -> 0..(NumColors - 1)] :
                            \A i \in 1..n, j \in 1..n : Adj(i, j) => f[i] # f[j]}
           LexLeq(f, g) == \/ f = g
                           \/ \E k \in 1..n : /\ f[k] < g[k]
                                              /\ \A m \in 1..(k - 1) : f[m] = g[m]
       IN (assignColors /\ n > 0 /\ determined) =>
             /\ assigned' = "true" <=> Colorings # {}
             /\ assigned' = "true" =>
                   LET colors == [i \in 1..n |-> coloredRegions_'[i].color]
                   IN /\ colors \in Colorings
                      /\ \A g \in Colorings : LexLeq(colors, g)]_vars

\* C24: initialize returns true, and isAvailable() is true afterwards, whenever the
\* library loads, the four required symbols are found, the reported version is
\* compatible with 1.0.0 and the init function returns non-zero; in every other case
\* it throws an OpenMDException and isAvailable() remains false.
C24_InitializeContract ==
    [][LET lib == library'
           usable == /\ lib.loads
                     /\ \A i \in DOMAIN RequiredSymbols : RequiredSymbols[i] \in lib.symbols
                     /\ isCompatibleWith(lib.version, RequiredVersion)
                     /\ lib.initReturn # 0
       IN initialize(lib) =>
             IF usable
             THEN initializeResult' = "true" /\ isAvailable'
             ELSE initializeResult' # "true" /\ ~isAvailable']_vars

\* C26: under any interleaving of concurrent transitionTo calls, a call that returns
\* true has appended exactly one record, a call that returns false has appended none
\* and left the state unchanged, existing records are never modified, and the history
\* is a valid walk in validTransitions that starts at IDLE, chains, never leaves
\* TERMINATING and, whenever no call is inside transitionTo, ends at the current state.
C26_HistoryIsValidWalk ==
    [][LET h == stateHistory_'
           n == Len(stateHistory_)
       IN /\ \/ h = stateHistory_
             \/ Len(h) = n + 1 /\ SubSeq(h, 1, n) = stateHistory_
          /\ \A t \in FsmThreads :
                (fsmPc[t] # "idle" /\ fsmPc'[t] = "idle") =>
                   /\ fsmReturned'[t] = "false" =>
                         /\ h = stateHistory_
                         /\ Len(h) = fsmCall[t].entryLen
                         /\ currentState_' = fsmCall[t].entryState
                   /\ fsmReturned'[t] = "true" =>
                         /\ Len(h) = fsmCall[t].entryLen + 1
                         /\ h[Len(h)] = [fromState |-> fsmCall[t].entryState,
                                         toState |-> fsmCall[t].newState]
                         /\ currentState_' = fsmCall[t].newState
          /\ \A k \in DOMAIN h :
                /\ isTransitionValid(h[k].fromState, h[k].toState)
                /\ h[k].fromState # "TERMINATING"
                /\ h[k].fromState = IF k = 1 THEN "IDLE" ELSE h[k - 1].toState
          /\ mutex_' = "none" =>
                currentState_' = IF h = <<>> THEN "IDLE" ELSE h[Len(h)].toState]_vars

\* C26 witness: both threads have returned from transitionTo, one with true and one
\* with false, and the history has reached TERMINATING in three transitions
C26_Witness ==
    /\ fsmReturned["f1"] = "true"
    /\ fsmReturned["f2"] = "false"
    /\ mutex_ = "none"
    /\ Len(stateHistory_) = 3
    /\ currentState_ = "TERMINATING"

\* C30: transitionTo always returns: the callback is called exactly once per
\* recorded transition, after the state update and the history append, and a callback
\* that calls getCurrentState, getStateHistory or transitionTo on the same object
\* completes: no thread is left blocked in it and no call is ended by an exception.
C30_CallbackCompletes ==
    /\ \A t \in FsmThreads : fsmPc[t] # "deadlocked" /\ fsmReturned[t] # "exception"
    /\ \A k \in DOMAIN notified :
          k \in DOMAIN stateHistory_ /\ notified[k] = stateHistory_[k]
    /\ (stateChangeCallback_ # "none" /\ mutex_ = "none") => notified = stateHistory_

====
